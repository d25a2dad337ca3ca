-------------------------- MODULE HmeshArrayProofs --------------------------
(***************************************************************************)
(* What the arrays of HmeshArray keep, for every number of arrays and      *)
(* blocks, every limit and every increment.                                *)
(*                                                                         *)
(* A call changes one array.  The invariant is therefore stated of one     *)
(* array at a time (Sound) and of the blocks of two (Apart), and there is  *)
(* a lemma for each way a call changes what an array holds: nothing more   *)
(* (KeepsInvariant), one block more (ObtainKeepsInvariant), one index less *)
(* (DropKeepsInvariant).                                                   *)
(***************************************************************************)
EXTENDS HmeshArray, IndexStackOpsProofs

\* What IInv says of an array, and what of the blocks of two.
Sound(r) ==
  /\ r \in ArrayType /\ WellFormed(r.stack) /\ r.stack.limit = HMESH_MAX_NBLOCKS
  /\ \A i \in Positions : InUse(r.stack, i) => i < r.max
  /\ \A i \in Positions : InUse(r.stack, i) <=> r.block[i] \in Blocks

Apart(r, i, s, j) ==
  InUse(r.stack, i) /\ InUse(s.stack, j) => r.block[i] # s.block[j]

LoopType == [of : Arrays \cup {NULL}, i : Word]

\* The places of an array are indices of its stack.
LEMMA Places ==
  /\ HMESH_MAX_NBLOCKS \in 2 .. IndexMax /\ Increment \in 1 .. IndexMax
  /\ NULL \notin Blocks /\ Garbage \notin Blocks /\ NULL # Garbage
  /\ \A i \in Positions : i \in Index /\ i \in Int /\ 0 <= i /\ i < HMESH_MAX_NBLOCKS
  /\ \A i \in Int : 0 <= i /\ i < HMESH_MAX_NBLOCKS => i \in Positions
  /\ \A i \in 0 .. HMESH_MAX_NBLOCKS : i \in Word
BY HmeshArrayAssumption, Words DEF HmeshArrayAssumption, Positions, Word

LEMMA ArrayFields ==
  ASSUME NEW r \in ArrayType
  PROVE  /\ r.exists \in BOOLEAN /\ r.max \in 0 .. HMESH_MAX_NBLOCKS
         /\ r.max \in Int /\ 0 <= r.max /\ r.max <= HMESH_MAX_NBLOCKS
         /\ r.block \in [Positions -> Blocks \cup {NULL, Garbage}]
         /\ r.stack \in StackType
BY Places, Words DEF ArrayType

\* In a sound array an index is in use when the stack has a place for it.
LEMMA HeldWhenLocated ==
  ASSUME NEW r, Sound(r), NEW i \in Positions
  PROVE  InUse(r.stack, i) <=> r.stack.loc[i] # NIL
BY Places, Words, ArrayFields, StackFields DEF Sound, InUse, WellFormed, Partitioned

LEMMA Unfold ==
  ASSUME IInv
  PROVE  /\ \A a \in Arrays : Sound(array[a])
         /\ array \in [Arrays -> ArrayType] /\ live \subseteq Blocks
         /\ loop \in LoopType /\ misread \in BOOLEAN
         /\ ~misread =>
              \A a \in Arrays : \A i \in Positions : InUse(array[a].stack, i) =>
                /\ array[a].block[i] \in live
                /\ \A b \in Arrays : \A j \in Positions :
                     (a # b \/ i # j) => Apart(array[a], i, array[b], j)
<1>1. TypeOK /\ MemFollowsStack /\ BlocksHaveOneOwner
      /\ \A a \in Arrays : array[a].stack.limit = HMESH_MAX_NBLOCKS
  BY DEF IInv
<1>2. array \in [Arrays -> ArrayType] /\ live \subseteq Blocks
      /\ loop \in LoopType /\ misread \in BOOLEAN
  BY <1>1 DEF TypeOK, LoopType
<1>3. \A a \in Arrays : Sound(array[a])
  BY <1>1, <1>2 DEF MemFollowsStack, Holds, Sound
<1>4. ~misread =>
        \A a \in Arrays : \A i \in Positions : InUse(array[a].stack, i) =>
          /\ array[a].block[i] \in live
          /\ \A b \in Arrays : \A j \in Positions :
               (a # b \/ i # j) => Apart(array[a], i, array[b], j)
  BY <1>1 DEF BlocksHaveOneOwner, Holds, Apart
<1>5. QED
  BY <1>2, <1>3, <1>4

\* The converse, of the next state.
LEMMA Fold ==
  ASSUME array' \in [Arrays -> ArrayType], \A a \in Arrays : Sound(array'[a]),
         live' \subseteq Blocks, loop' \in LoopType, misread' \in BOOLEAN,
         ~misread' =>
              \A a \in Arrays : \A i \in Positions : InUse(array'[a].stack, i) =>
                /\ array'[a].block[i] \in live'
                /\ \A b \in Arrays : \A j \in Positions :
                     (a # b \/ i # j) => Apart(array'[a], i, array'[b], j)
  PROVE  IInv'
<1>1. TypeOK'
  BY DEF TypeOK, LoopType
<1>2. MemFollowsStack'
  BY DEF MemFollowsStack, Holds, Sound
<1>3. BlocksHaveOneOwner'
  BY DEF BlocksHaveOneOwner, Holds, Apart
<1>4. \A a \in Arrays : array'[a].stack.limit = HMESH_MAX_NBLOCKS
  BY DEF Sound
<1>5. QED
  BY <1>1, <1>2, <1>3, <1>4 DEF IInv

(***************************************************************************)
(* The three ways a call changes what an array holds.                      *)
(***************************************************************************)

\* The array holds nothing it did not hold and the pool has not lost what it holds.
LEMMA KeepsInvariant ==
  ASSUME IInv, NEW a \in Arrays, NEW r, Sound(r),
         array' = [array EXCEPT ![a] = r],
         live' = live, loop' \in LoopType, misread' = misread,
         \A i \in Positions : InUse(r.stack, i) =>
           InUse(array[a].stack, i) /\ r.block[i] = array[a].block[i]
  PROVE  IInv'
<1>1. /\ \A b \in Arrays : Sound(array[b])
      /\ array \in [Arrays -> ArrayType] /\ live \subseteq Blocks /\ misread \in BOOLEAN
  BY Unfold
<1>2. \A b \in Arrays : array'[b] = IF b = a THEN r ELSE array[b]
  BY <1>1
<1>3. array' \in [Arrays -> ArrayType] /\ \A b \in Arrays : Sound(array'[b])
  BY <1>1, <1>2 DEF Sound
<1>4. \A b \in Arrays : \A i \in Positions : InUse(array'[b].stack, i) =>
        InUse(array[b].stack, i) /\ array'[b].block[i] = array[b].block[i]
  BY <1>2
<1>5. ~misread' =>
        \A b \in Arrays : \A i \in Positions : InUse(array'[b].stack, i) =>
          /\ array'[b].block[i] \in live'
          /\ \A c \in Arrays : \A j \in Positions :
               (b # c \/ i # j) => Apart(array'[b], i, array'[c], j)
  BY <1>4, Unfold DEF Apart
<1>6. QED
  BY <1>1, <1>3, <1>5, Fold

\* One index is dropped with its block, which goes back to the pool.
LEMMA DropKeepsInvariant ==
  ASSUME IInv, NEW a \in Arrays, NEW i \in Positions, NEW block,
         \/ InUse(array[a].stack, i) /\ block = array[a].block[i] /\ misread' = misread
         \/ misread' = TRUE,
         array' = [array EXCEPT ![a] = Dropped(@, i)],
         live' = live \ {block}, loop' \in LoopType
  PROVE  IInv'
<1> DEFINE r == Dropped(array[a], i)
<1>1. /\ Sound(array[a]) /\ array[a] \in ArrayType
      /\ array \in [Arrays -> ArrayType] /\ live \subseteq Blocks /\ misread \in BOOLEAN
      /\ \A b \in Arrays : Sound(array[b])
  BY Unfold
<1>2. /\ r.block = [array[a].block EXCEPT ![i] = NULL]
      /\ r.stack = IF InUse(array[a].stack, i) THEN Release(array[a].stack, i)
                    ELSE array[a].stack
      /\ r.max = array[a].max /\ r.exists = array[a].exists
      /\ r = [exists |-> r.exists, max |-> r.max, block |-> r.block, stack |-> r.stack]
  <2> DEFINE q == array[a]
             t == IF InUse(q.stack, i) THEN Release(q.stack, i) ELSE q.stack
  <2>1. q \in ArrayType
    BY <1>1
  <2>2. r = [q EXCEPT !.block = [q.block EXCEPT ![i] = NULL], !.stack = t]
    BY <2>1 DEF Dropped, ArrayType
  <2> HIDE DEF q, t, r
  <2>3. /\ r.block = [q.block EXCEPT ![i] = NULL] /\ r.stack = t
        /\ r.max = q.max /\ r.exists = q.exists
        /\ r = [exists |-> r.exists, max |-> r.max, block |-> r.block, stack |-> r.stack]
    BY <2>1, <2>2 DEF ArrayType
  <2>4. QED
    BY <2>3 DEF q, t
<1>3. /\ r.stack \in StackType /\ WellFormed(r.stack) /\ r.stack.limit = HMESH_MAX_NBLOCKS
      /\ \A j \in Positions : InUse(r.stack, j) <=> InUse(array[a].stack, j) /\ j # i
  <2> DEFINE s == array[a].stack
  <2>1. s \in StackType /\ WellFormed(s) /\ s.limit = HMESH_MAX_NBLOCKS /\ i \in Index
    BY <1>1, Places, ArrayFields DEF Sound
  <2>2. CASE ~InUse(s, i)
    BY <1>2, <2>1, <2>2
  <2>3. CASE InUse(s, i)
    <3>1. s.loc[i] # NIL
      BY <2>3 DEF InUse
    <3>2. /\ Release(s, i) \in StackType /\ WellFormed(Release(s, i))
          /\ Release(s, i).limit = s.limit /\ Release(s, i).max = s.max
          /\ \A j \in Index : Release(s, i).loc[j] # NIL <=> s.loc[j] # NIL /\ j # i
      BY <2>1, <3>1, ReleaseWellFormed
    <3>3. r.stack = Release(s, i)
      BY <1>2, <2>3
    <3>4. QED
      BY <2>1, <3>2, <3>3, Places DEF InUse
  <2>4. QED
    BY <2>2, <2>3
<1> HIDE DEF r
<1>4. Sound(r)
  <2>1. r \in ArrayType
    BY <1>1, <1>2, <1>3, ArrayFields DEF ArrayType
  <2>2. \A j \in Positions : r.block[j] = IF j = i THEN NULL ELSE array[a].block[j]
    BY <1>1, <1>2, ArrayFields
  <2>3. QED
    BY <1>1, <1>2, <1>3, <2>1, <2>2, Places DEF Sound
<1>5. \A b \in Arrays : array'[b] = IF b = a THEN r ELSE array[b]
  BY <1>1 DEF r
<1>6. array' \in [Arrays -> ArrayType] /\ \A b \in Arrays : Sound(array'[b])
  BY <1>1, <1>4, <1>5 DEF Sound
<1>7. \A b \in Arrays : \A j \in Positions : InUse(array'[b].stack, j) =>
        /\ InUse(array[b].stack, j) /\ array'[b].block[j] = array[b].block[j]
        /\ b # a \/ j # i
  BY <1>1, <1>2, <1>3, <1>5, ArrayFields
<1>8. ~misread' =>
        \A b \in Arrays : \A j \in Positions : InUse(array'[b].stack, j) =>
          /\ array'[b].block[j] \in live'
          /\ \A c \in Arrays : \A k \in Positions :
               (b # c \/ j # k) => Apart(array'[b], j, array'[c], k)
  <2> SUFFICES ASSUME ~misread', NEW b \in Arrays, NEW j \in Positions,
                      InUse(array'[b].stack, j)
               PROVE  /\ array'[b].block[j] \in live'
                      /\ \A c \in Arrays : \A k \in Positions :
                           (b # c \/ j # k) => Apart(array'[b], j, array'[c], k)
    OBVIOUS
  <2>1. ~misread /\ InUse(array[a].stack, i) /\ block = array[a].block[i]
    OBVIOUS
  <2>2. array'[b].block[j] \in live /\ Apart(array[a], i, array[b], j)
    BY <1>7, <2>1, Unfold
  <2>3. array'[b].block[j] # block
    BY <1>7, <2>1, <2>2 DEF Apart
  <2>4. ASSUME NEW c \in Arrays, NEW k \in Positions, b # c \/ j # k
        PROVE  Apart(array'[b], j, array'[c], k)
    BY <1>7, <2>1, <2>4, Unfold DEF Apart
  <2>5. QED
    BY <2>2, <2>3, <2>4
<1>9. QED
  BY <1>1, <1>6, <1>8, Fold

\* One index is claimed, for a block nobody had.
LEMMA ObtainKeepsInvariant ==
  ASSUME IInv, NEW a \in Arrays, NEW i \in Positions, NEW r, Sound(r),
         NEW block \in Blocks \ live, live' = live \cup {block},
         array' = [array EXCEPT ![a] = r], loop' \in LoopType, misread' = misread,
         r.block = [array[a].block EXCEPT ![i] = block],
         \A j \in Positions : InUse(r.stack, j) => InUse(array[a].stack, j) \/ j = i
  PROVE  IInv'
<1>1. /\ \A b \in Arrays : Sound(array[b])
      /\ array \in [Arrays -> ArrayType] /\ live \subseteq Blocks /\ misread \in BOOLEAN
  BY Unfold
<1>2. \A b \in Arrays : array'[b] = IF b = a THEN r ELSE array[b]
  BY <1>1
<1>3. array' \in [Arrays -> ArrayType] /\ \A b \in Arrays : Sound(array'[b])
  BY <1>1, <1>2 DEF Sound
<1>4. \A b \in Arrays : \A j \in Positions : InUse(array'[b].stack, j) =>
        \/ b = a /\ j = i /\ array'[b].block[j] = block
        \/ /\ b # a \/ j # i
           /\ InUse(array[b].stack, j) /\ array'[b].block[j] = array[b].block[j]
  BY <1>1, <1>2, ArrayFields
<1>5. ~misread' =>
        \A b \in Arrays : \A j \in Positions : InUse(array'[b].stack, j) =>
          /\ array'[b].block[j] \in live'
          /\ \A c \in Arrays : \A k \in Positions :
               (b # c \/ j # k) => Apart(array'[b], j, array'[c], k)
  BY <1>4, Unfold DEF Apart
<1>6. live' \subseteq Blocks
  BY <1>1
<1>7. QED
  BY <1>1, <1>3, <1>5, <1>6, Fold

(***************************************************************************)
(* The initial states and the actions.                                     *)
(***************************************************************************)
LEMMA NoArraySound ==
  /\ Sound(NoArray) /\ Sound([NoArray EXCEPT !.exists = TRUE, !.max = NoArray.stack.max])
  /\ \A i \in Positions : ~InUse(NoArray.stack, i)
<1> DEFINE s == NewStack(HMESH_MAX_NBLOCKS, Increment)
           blank == [i \in Positions |-> Garbage]
<1>1. /\ s \in StackType /\ WellFormed(s) /\ s.limit = HMESH_MAX_NBLOCKS
      /\ s.max \in 1 .. HMESH_MAX_NBLOCKS /\ s.loc = [i \in Index |-> NIL]
  <2>1. HMESH_MAX_NBLOCKS \in 2 .. IndexMax /\ Increment \in Word
    BY Places, Words
  <2>2. QED
    BY <2>1, NewStackWellFormed
<1>2. NoArray = [exists |-> FALSE, max |-> 0, block |-> blank, stack |-> s]
  BY DEF NoArray
<1> HIDE DEF s
<1>3. \A i \in Positions : ~InUse(s, i) /\ blank[i] \notin Blocks
  BY <1>1, Places DEF InUse
<1>4. /\ 0 \in 0 .. HMESH_MAX_NBLOCKS /\ s.max \in 0 .. HMESH_MAX_NBLOCKS
      /\ blank \in [Positions -> Blocks \cup {NULL, Garbage}]
  BY <1>1, Places, Words
<1> HIDE DEF blank
<1>5. QED
  BY <1>1, <1>2, <1>3, <1>4 DEF Sound, ArrayType

LEMMA InitIInv == Init => IInv
<1> SUFFICES ASSUME Init PROVE IInv
  OBVIOUS
<1>1. array = [a \in Arrays |-> NoArray] /\ live = {} /\ loop = Idle /\ misread = FALSE
  BY DEF Init
<1>2. \A a \in Arrays : Sound(array[a])
  BY <1>1, NoArraySound
<1>3. TypeOK
  <2>1. array \in [Arrays -> ArrayType]
    BY <1>1, NoArraySound DEF Sound
  <2>2. Idle \in [of : Arrays \cup {NULL}, i : Word]
    BY Words DEF Idle
  <2>3. QED
    BY <1>1, <2>1, <2>2 DEF TypeOK
<1>4. MemFollowsStack
  BY <1>2 DEF MemFollowsStack, Holds, Sound
<1>5. BlocksHaveOneOwner
  BY <1>1, NoArraySound DEF BlocksHaveOneOwner, Holds
<1>6. QED
  BY <1>2, <1>3, <1>4, <1>5 DEF IInv, Sound

\* A stack that changes while the same indices stay in use.
LEMMA SameHeldSound ==
  ASSUME NEW r, Sound(r), NEW t \in StackType, WellFormed(t), t.limit = HMESH_MAX_NBLOCKS,
         \A i \in Positions : InUse(t, i) <=> InUse(r.stack, i)
  PROVE  /\ Sound([r EXCEPT !.stack = t])
         /\ [r EXCEPT !.stack = t].block = r.block
         /\ [r EXCEPT !.stack = t].stack = t
<1> DEFINE q == [r EXCEPT !.stack = t]
<1>1. r \in ArrayType
  BY DEF Sound
<1>2. q \in ArrayType /\ q.block = r.block /\ q.stack = t /\ q.max = r.max
  BY <1>1 DEF ArrayType
<1> HIDE DEF q
<1>3. Sound(q)
  BY <1>2 DEF Sound
<1>4. QED
  BY <1>2, <1>3 DEF q

\* The stack as hmesh_array_add () finds it once it has grown, and with the index claimed.
LEMMA ReachedSound ==
  ASSUME IInv, NEW a \in Arrays, NEW i \in 0 .. HMESH_MAX_NBLOCKS
  PROVE  /\ Reached(a, i) \in StackType /\ WellFormed(Reached(a, i))
         /\ Reached(a, i).limit = HMESH_MAX_NBLOCKS
         /\ Reached(a, i).max \in Int /\ Reached(a, i).max <= HMESH_MAX_NBLOCKS
         /\ array[a].stack.max <= Reached(a, i).max
         /\ \A j \in Positions :
              InUse(Reached(a, i), j) <=> InUse(array[a].stack, j)
<1> DEFINE s == array[a].stack
           r == Reached(a, i)
<1>1. s \in StackType /\ WellFormed(s) /\ s.limit = HMESH_MAX_NBLOCKS /\ i \in Word
  BY Unfold, ArrayFields, Places DEF Sound
<1>2. /\ r \in StackType /\ WellFormed(r) /\ s.max <= r.max /\ r.loc = s.loc
      /\ r.limit = s.limit
  BY <1>1, ExpandUntilWellFormed DEF Reached
<1> HIDE DEF r
<1>3. /\ UsedSet(r) = {j \in Index : r.loc[j] # NIL}
      /\ UsedSet(s) = {j \in Index : s.loc[j] # NIL}
      /\ r.max \in Int /\ r.max <= r.limit
  BY <1>1, <1>2, UsedAndFree
<1>4. \A j \in Positions : InUse(r, j) <=> InUse(s, j)
  BY <1>2, <1>3, Places DEF UsedSet
<1>5. QED
  BY <1>1, <1>2, <1>3, <1>4 DEF r

LEMMA ClaimedSound ==
  ASSUME IInv, NEW a \in Arrays, NEW i \in 0 .. HMESH_MAX_NBLOCKS, CanClaim(a, i)
  PROVE  /\ i \in Positions /\ i < Reached(a, i).max
         /\ Claim(Reached(a, i), i) \in StackType /\ WellFormed(Claim(Reached(a, i), i))
         /\ Claim(Reached(a, i), i).limit = HMESH_MAX_NBLOCKS
         /\ Claim(Reached(a, i), i).max = Reached(a, i).max
         /\ Claim(Reached(a, i), i).loc[i] # NIL
         /\ ~InUse(array[a].stack, i)
         /\ \A j \in Positions :
              InUse(Claim(Reached(a, i), i), j) <=> InUse(array[a].stack, j) \/ j = i
<1> DEFINE r == Reached(a, i)
           t == Claim(r, i)
<1>1. /\ r \in StackType /\ WellFormed(r) /\ r.limit = HMESH_MAX_NBLOCKS
      /\ r.max \in Int /\ r.max <= HMESH_MAX_NBLOCKS
      /\ \A j \in Positions : InUse(r, j) <=> InUse(array[a].stack, j)
  BY ReachedSound
<1>2. i < r.max /\ r.locFree[i] # NIL
  BY DEF CanClaim
<1> HIDE DEF r
<1>3. i \in Positions /\ i \in Index
  BY <1>1, <1>2, Places
<1>4. /\ t \in StackType /\ WellFormed(t) /\ t.max = r.max /\ t.limit = r.limit
      /\ i \notin UsedSet(r) /\ UsedSet(t) = UsedSet(r) \cup {i}
  <2>1. /\ t \in StackType /\ WellFormed(t) /\ t.max = r.max /\ t.limit = r.limit
    BY <1>1, <1>2, <1>3, ClaimWellFormed
  <2>2. i \notin UsedSet(r) /\ UsedSet(t) = UsedSet(r) \cup {i}
    BY <1>1, <1>2, <1>3, ClaimSets
  <2> HIDE DEF t
  <2>3. QED
    BY <2>1, <2>2
<1> HIDE DEF t
<1>5. \A j \in Positions : InUse(t, j) <=> InUse(r, j) \/ j = i
  BY <1>3, <1>4, Places DEF UsedSet
<1>6. t.loc[i] # NIL /\ ~InUse(r, i)
  BY <1>3, <1>4, <1>5 DEF InUse, UsedSet
<1>7. QED
  BY <1>1, <1>2, <1>3, <1>4, <1>5, <1>6 DEF r, t

LEMMA CreateStep ==
  ASSUME IInv, NEW a \in Arrays, Create(a)
  PROVE  IInv'
<1>1. /\ array' = [array EXCEPT ![a] = [NoArray EXCEPT !.exists = TRUE,
                                                      !.max = NoArray.stack.max]]
      /\ live' = live /\ loop' = loop /\ misread' = misread
  BY DEF Create
<1>2. [NoArray EXCEPT !.exists = TRUE, !.max = NoArray.stack.max].stack = NoArray.stack
  BY DEF NoArray
<1>3. QED
  BY <1>1, <1>2, NoArraySound, KeepsInvariant, Unfold

LEMMA AddStep ==
  ASSUME IInv, NEW a \in Arrays, NEW i \in 0 .. HMESH_MAX_NBLOCKS, Add(a, i)
  PROVE  IInv'
<1> DEFINE t == Claim(Reached(a, i), i)
<1>1. /\ i \in Positions /\ i < t.max /\ t \in StackType /\ WellFormed(t)
      /\ t.limit = HMESH_MAX_NBLOCKS
      /\ \A j \in Positions : InUse(t, j) <=> InUse(array[a].stack, j) \/ j = i
  BY ClaimedSound DEF Add
<1>2. PICK b \in Blocks \ live :
        /\ live' = live \cup {b}
        /\ array' = [array EXCEPT ![a].stack = t, ![a].max = Room(array[a], t),
                                  ![a].block[i] = b]
  BY DEF Add
<1>3. loop' = loop /\ misread' = misread
  BY DEF Add
<1> HIDE DEF t
<1> DEFINE q == array[a]
           r == [q EXCEPT !.stack = t, !.max = Room(q, t), !.block = [q.block EXCEPT ![i] = b]]
<1>4. q \in ArrayType /\ Sound(q) /\ array \in [Arrays -> ArrayType]
  BY Unfold
<1>5. array' = [array EXCEPT ![a] = r]
  BY <1>2, <1>4 DEF ArrayType
<1> HIDE DEF q
<1>6. /\ r.block = [q.block EXCEPT ![i] = b] /\ r.stack = t /\ r.max = Room(q, t)
      /\ r.exists = q.exists
      /\ r = [exists |-> r.exists, max |-> r.max, block |-> r.block, stack |-> r.stack]
  <2> DEFINE max == Room(q, t)
             block == [q.block EXCEPT ![i] = b]
  <2>1. r = [q EXCEPT !.stack = t, !.max = max, !.block = block]
    OBVIOUS
  <2> HIDE DEF r, max, block
  <2>2. /\ r.block = block /\ r.stack = t /\ r.max = max /\ r.exists = q.exists
        /\ r = [exists |-> r.exists, max |-> r.max, block |-> r.block, stack |-> r.stack]
    BY <1>4, <2>1 DEF ArrayType
  <2>3. QED
    BY <2>2 DEF block, max
<1> HIDE DEF r
<1>7. /\ r.max \in 0 .. HMESH_MAX_NBLOCKS /\ q.max <= r.max /\ t.max <= r.max
      /\ q.max \in Int /\ r.max \in Int /\ t.max \in Int
  <2>1. t.max \in Int /\ 0 <= t.max /\ t.max <= HMESH_MAX_NBLOCKS
    BY <1>1, StackFields, Words DEF WellFormed, Partitioned
  <2>2. QED
    BY <1>4, <1>6, <2>1, ArrayFields, Places DEF Room
<1>8. Sound(r)
  <2>1. r \in ArrayType
    BY <1>1, <1>4, <1>6, <1>7, ArrayFields DEF ArrayType
  <2>2. \A j \in Positions : r.block[j] = IF j = i THEN b ELSE q.block[j]
    BY <1>4, <1>6, ArrayFields
  <2>3. \A j \in Positions : InUse(t, j) => j < r.max
    BY <1>7, Places DEF InUse
  <2>4. \A j \in Positions : InUse(t, j) <=> r.block[j] \in Blocks
    BY <1>1, <1>4, <2>2 DEF Sound, q
  <2>5. QED
    BY <1>1, <1>6, <2>1, <2>3, <2>4 DEF Sound
<1>9. \A j \in Positions : InUse(r.stack, j) => InUse(array[a].stack, j) \/ j = i
  BY <1>1, <1>6
<1>10. r.block = [array[a].block EXCEPT ![i] = b] /\ b \in Blocks \ live
  BY <1>6 DEF q
<1>11. QED
  BY <1>1, <1>2, <1>3, <1>5, <1>8, <1>9, <1>10, ObtainKeepsInvariant, Unfold

LEMMA AddFailsStep ==
  ASSUME IInv, NEW a \in Arrays, NEW i \in 0 .. HMESH_MAX_NBLOCKS, AddFails(a, i)
  PROVE  IInv'
<1> DEFINE t == Claim(Reached(a, i), i)
           u == Release(t, i)
<1>1. /\ i \in Positions /\ i \in Index /\ t \in StackType /\ WellFormed(t)
      /\ t.limit = HMESH_MAX_NBLOCKS /\ t.loc[i] # NIL /\ ~InUse(array[a].stack, i)
      /\ \A j \in Positions : InUse(t, j) <=> InUse(array[a].stack, j) \/ j = i
  BY ClaimedSound, Places DEF AddFails
<1>2. /\ array' = [array EXCEPT ![a].stack = u]
      /\ live' = live /\ loop' = loop /\ misread' = misread
  BY DEF AddFails, RollBack
<1> HIDE DEF t
<1>3. u \in StackType /\ WellFormed(u) /\ u.limit = t.limit
  BY <1>1, ReleaseWellFormed
<1>4. UsedSet(u) = UsedSet(t) \ {i}
  BY <1>1, ReleaseSets
<1> HIDE DEF u
<1>5. \A j \in Positions : InUse(u, j) <=> InUse(array[a].stack, j)
  BY <1>1, <1>4, Places DEF UsedSet
<1> DEFINE r == [array[a] EXCEPT !.stack = u]
<1>6. array[a] \in ArrayType /\ Sound(array[a]) /\ array \in [Arrays -> ArrayType]
  BY Unfold
<1>7. array' = [array EXCEPT ![a] = r]
  BY <1>2, <1>6
<1>8. Sound(r) /\ r.block = array[a].block /\ r.stack = u
  BY <1>1, <1>3, <1>5, <1>6, SameHeldSound
<1> HIDE DEF r
<1>9. QED
  BY <1>2, <1>5, <1>7, <1>8, KeepsInvariant, Unfold

LEMMA AddRefusedStep ==
  ASSUME IInv, NEW a \in Arrays, NEW i \in 0 .. HMESH_MAX_NBLOCKS, AddRefused(a, i)
  PROVE  IInv'
<1> DEFINE u == Reached(a, i)
<1>1. /\ array' = [array EXCEPT ![a].stack = u]
      /\ live' = live /\ loop' = loop /\ misread' = misread
  BY DEF AddRefused
<1>2. /\ u \in StackType /\ WellFormed(u) /\ u.limit = HMESH_MAX_NBLOCKS
      /\ \A j \in Positions : InUse(u, j) <=> InUse(array[a].stack, j)
  BY ReachedSound
<1> HIDE DEF u
<1> DEFINE r == [array[a] EXCEPT !.stack = u]
<1>3. array[a] \in ArrayType /\ Sound(array[a]) /\ array \in [Arrays -> ArrayType]
  BY Unfold
<1>4. array' = [array EXCEPT ![a] = r]
  BY <1>1, <1>3
<1>5. Sound(r) /\ r.block = array[a].block /\ r.stack = u
  BY <1>2, <1>3, SameHeldSound
<1> HIDE DEF r
<1>6. QED
  BY <1>1, <1>2, <1>4, <1>5, KeepsInvariant, Unfold

\* What is found at a place is in use when it is a block.
LEMMA LocatedHeld ==
  ASSUME IInv, NEW a \in Arrays, NEW i \in 0 .. HMESH_MAX_NBLOCKS,
         Located(array[a], i) # NULL
  PROVE  /\ i \in Positions /\ Located(array[a], i) = array[a].block[i]
         /\ Located(array[a], i) \in live => InUse(array[a].stack, i)
<1>1. Sound(array[a]) /\ array[a] \in ArrayType /\ live \subseteq Blocks
  BY Unfold
<1>2. i < array[a].max /\ Located(array[a], i) = array[a].block[i]
  BY DEF Located
<1>3. i \in Positions
  BY <1>1, <1>2, ArrayFields, Places
<1>4. QED
  BY <1>1, <1>2, <1>3 DEF Sound

LEMMA RemoveStep ==
  ASSUME IInv, NEW a \in Arrays, NEW i \in 0 .. HMESH_MAX_NBLOCKS, Remove(a, i)
  PROVE  IInv'
<1>1. /\ Located(array[a], i) \in live /\ live' = live \ {Located(array[a], i)}
      /\ array' = [array EXCEPT ![a] = Dropped(@, i)]
      /\ loop' = loop /\ misread' = misread
  BY DEF Remove
<1>2. Located(array[a], i) # NULL
  BY <1>1, Unfold, Places
<1>3. QED
  BY <1>1, <1>2, LocatedHeld, DropKeepsInvariant, Unfold

LEMMA RemoveGarbageStep ==
  ASSUME IInv, NEW a \in Arrays, NEW i \in 0 .. HMESH_MAX_NBLOCKS, RemoveGarbage(a, i)
  PROVE  IInv'
<1>1. Located(array[a], i) = Garbage /\ loop' = loop
  BY DEF RemoveGarbage
<1>2. i \in Positions
  BY <1>1, LocatedHeld, Places
<1>3. CASE array' = array /\ live' = live /\ misread' = misread
  BY <1>1, <1>3, Unfold, Fold
<1>4. CASE /\ \E b \in live : live' = live \ {b}
           /\ array' = [array EXCEPT ![a] = Dropped(@, i)]
           /\ misread' = TRUE
  BY <1>1, <1>2, <1>4, DropKeepsInvariant, Unfold
<1>5. QED
  BY <1>3, <1>4 DEF RemoveGarbage

\* The index hmesh_array_destroy () reads next is in use.
LEMMA SweptHeld ==
  ASSUME IInv, NEW a \in Arrays, loop.of = a, loop.i < array[a].stack.n
  PROVE  /\ array[a].stack.inUse[loop.i] \in Positions
         /\ InUse(array[a].stack, array[a].stack.inUse[loop.i])
         /\ loop.i \in Word /\ loop.i + 1 \in Word
<1> DEFINE s == array[a].stack
           j == s.inUse[loop.i]
<1>1. s \in StackType /\ WellFormed(s) /\ s.limit = HMESH_MAX_NBLOCKS /\ loop.i \in Word
  BY Unfold, ArrayFields DEF Sound, LoopType
<1>2. /\ s.n \in Word /\ s.max \in Word /\ s.limit \in 2 .. IndexMax /\ s.max <= s.limit
      /\ s.inUse \in [Index -> Word] /\ s.loc \in [Index -> Word]
  BY <1>1, StackFields DEF WellFormed, Partitioned
<1>3. loop.i \in Index /\ loop.i + 1 \in Word /\ loop.i < s.n
  BY <1>1, <1>2, Words
<1>4. j < s.max /\ s.loc[j] = loop.i /\ j \in Word
  BY <1>1, <1>2, <1>3 DEF WellFormed, Mutual
<1>5. j \in Positions
  BY <1>1, <1>2, <1>4, Words, Places
<1>6. InUse(s, j)
  BY <1>3, <1>4, Words DEF InUse
<1>7. QED
  BY <1>1, <1>3, <1>5, <1>6

LEMMA DestroyStepStep ==
  ASSUME IInv, NEW a \in Arrays, DestroyStep(a)
  PROVE  IInv'
<1> DEFINE j == array[a].stack.inUse[loop.i]
<1>1. j \in Positions /\ InUse(array[a].stack, j) /\ loop.i + 1 \in Word
  BY SweptHeld DEF DestroyStep
<1>2. /\ loop' = [loop EXCEPT !.i = @ + 1] /\ misread' = misread
      /\ \/ /\ live' = live \ {array[a].block[j]}
            /\ array' = [array EXCEPT ![a] = Dropped(@, j)]
         \/ array' = array /\ live' = live
  BY DEF DestroyStep
<1> HIDE DEF j
<1>3. loop' \in LoopType
  BY <1>1, <1>2, Unfold DEF LoopType
<1>4. CASE /\ live' = live \ {array[a].block[j]}
           /\ array' = [array EXCEPT ![a] = Dropped(@, j)]
  BY <1>1, <1>2, <1>3, <1>4, DropKeepsInvariant
<1>5. CASE array' = array /\ live' = live
  BY <1>2, <1>3, <1>5, Unfold, Fold
<1>6. QED
  BY <1>2, <1>4, <1>5

LEMMA DestroyReturnsStep ==
  ASSUME IInv, NEW a \in Arrays, DestroyReturns(a)
  PROVE  IInv'
<1>1. /\ array' = [array EXCEPT ![a] = NoArray] /\ loop' = Idle
      /\ live' = live /\ misread' = misread
  BY DEF DestroyReturns
<1>2. loop' \in LoopType
  BY <1>1, Words DEF LoopType, Idle
<1>3. QED
  BY <1>1, <1>2, NoArraySound, KeepsInvariant

LEMMA NextIInv == IInv /\ [Next]_vars => IInv'
<1> SUFFICES ASSUME IInv, [Next]_vars PROVE IInv'
  OBVIOUS
<1>1. CASE array' = array /\ live' = live /\ misread' = misread /\ loop' \in LoopType
  BY <1>1, Unfold, Fold
<1>2. CASE UNCHANGED vars
  BY <1>1, <1>2, Unfold DEF vars
<1>3. ASSUME NEW a \in Arrays,
             \/ Create(a) \/ Destroy(a) \/ DestroyStep(a) \/ DestroyReturns(a)
             \/ \E i \in 0 .. HMESH_MAX_NBLOCKS :
                  \/ Add(a, i) \/ AddFails(a, i) \/ AddRefused(a, i)
                  \/ Remove(a, i) \/ RemoveRefused(a, i) \/ RemoveGarbage(a, i)
      PROVE  IInv'
  <2>1. CASE Destroy(a)
    BY <1>1, <2>1, Words DEF Destroy, LoopType
  <2>2. CASE Create(a) \/ DestroyStep(a) \/ DestroyReturns(a)
    BY <2>2, CreateStep, DestroyStepStep, DestroyReturnsStep
  <2>3. ASSUME NEW i \in 0 .. HMESH_MAX_NBLOCKS, Add(a, i) \/ AddFails(a, i) \/ AddRefused(a, i)
        PROVE  IInv'
    BY <2>3, AddStep, AddFailsStep, AddRefusedStep
  <2>4. ASSUME NEW i \in 0 .. HMESH_MAX_NBLOCKS, Remove(a, i) \/ RemoveGarbage(a, i)
        PROVE  IInv'
    BY <2>4, RemoveStep, RemoveGarbageStep
  <2>5. ASSUME NEW i \in 0 .. HMESH_MAX_NBLOCKS, RemoveRefused(a, i)
        PROVE  IInv'
    BY <1>2, <2>5 DEF RemoveRefused
  <2>6. QED
    BY <1>3, <2>1, <2>2, <2>3, <2>4, <2>5
<1>4. QED
  BY <1>2, <1>3 DEF Next

(***************************************************************************)
(* The theorems.                                                           *)
(***************************************************************************)

\* The invariant of hmesh_array_add (), _remove () and _destroy () called in any order.
THEOREM Invariance == Spec => []IInv
<1>1. Init => IInv
  BY InitIInv
<1>2. IInv /\ [Next]_vars => IInv'
  BY NextIInv
<1>3. QED
  BY <1>1, <1>2, PTL DEF Spec

\* Every array, its stack and mem keep their types.
THEOREM TypeCorrect == Spec => []TypeOK
<1>1. IInv => TypeOK
  BY DEF IInv
<1>2. QED
  BY <1>1, Invariance, PTL

\* After any calls of hmesh_array_add (), _remove () and _destroy (), failed ones and
\* misreads included, every index in use has its place in mem and a block there, and
\* the places of the others show none.
THEOREM MemNeverBehind == Spec => []MemFollowsStack
<1>1. IInv => MemFollowsStack
  BY DEF IInv
<1>2. QED
  BY <1>1, Invariance, PTL

\* Until hmesh_array_remove () misreads an uninitialised mem[i], a block held by an
\* array is still out of the pool, and one place alone holds it.
THEOREM OneOwner == Spec => []BlocksHaveOneOwner
<1>1. IInv => BlocksHaveOneOwner
  BY DEF IInv
<1>2. QED
  BY <1>1, Invariance, PTL

\* A removal, a second removal or a destruction gives back only blocks that an index
\* in use held, unless mem[i] was misread.
THEOREM StraysOnlyByMisreading == Spec => OnlyMisreadsStray
<1>1. IInv /\ [Next]_vars => ReturnsOnlyOwned \/ misread' \/ UNCHANGED vars
  <2> SUFFICES ASSUME IInv, [Next]_vars, live \ live' # {}
               PROVE  ReturnsOnlyOwned \/ misread'
    BY DEF ReturnsOnlyOwned
  <2>1. PICK a \in Arrays :
          \/ DestroyStep(a)
          \/ \E i \in 0 .. HMESH_MAX_NBLOCKS : Remove(a, i) \/ RemoveGarbage(a, i)
    <3>1. Next
      BY DEF vars
    <3>2. PICK a \in Arrays :
            \/ Create(a) \/ Destroy(a) \/ DestroyStep(a) \/ DestroyReturns(a)
            \/ \E i \in 0 .. HMESH_MAX_NBLOCKS :
                 \/ Add(a, i) \/ AddFails(a, i) \/ AddRefused(a, i)
                 \/ Remove(a, i) \/ RemoveRefused(a, i) \/ RemoveGarbage(a, i)
      BY <3>1 DEF Next
    <3>3. ~ Create(a) /\ ~ Destroy(a) /\ ~ DestroyReturns(a)
      BY DEF Create, Destroy, DestroyReturns
    <3>4. ASSUME NEW i \in 0 .. HMESH_MAX_NBLOCKS
          PROVE  ~ Add(a, i) /\ ~ AddFails(a, i) /\ ~ AddRefused(a, i) /\ ~ RemoveRefused(a, i)
      <4>1. ~ Add(a, i)
        BY DEF Add
      <4>2. ~ AddFails(a, i)
        BY DEF AddFails
      <4>3. ~ AddRefused(a, i) /\ ~ RemoveRefused(a, i)
        BY DEF AddRefused, RemoveRefused, vars
      <4>4. QED
        BY <4>1, <4>2, <4>3
    <3>5. QED
      BY <3>2, <3>3, <3>4
  <2>2. CASE DestroyStep(a)
    BY <2>2, SweptHeld DEF DestroyStep, ReturnsOnlyOwned, Holds
  <2>3. ASSUME NEW i \in 0 .. HMESH_MAX_NBLOCKS, Remove(a, i)
        PROVE  ReturnsOnlyOwned
    <3>1. Located(array[a], i) \in live /\ live' = live \ {Located(array[a], i)}
      BY <2>3 DEF Remove
    <3>2. Located(array[a], i) # NULL
      BY <3>1, Unfold, Places
    <3>3. QED
      BY <3>1, <3>2, LocatedHeld DEF ReturnsOnlyOwned, Holds
  <2>4. ASSUME NEW i \in 0 .. HMESH_MAX_NBLOCKS, RemoveGarbage(a, i)
        PROVE  misread'
    BY <2>4 DEF RemoveGarbage
  <2>5. QED
    BY <2>1, <2>2, <2>3, <2>4
<1>2. QED
  BY <1>1, Invariance, PTL DEF Spec, OnlyMisreadsStray
=============================================================================
