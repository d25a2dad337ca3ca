-------------------------- MODULE IndexStackProofs --------------------------
(***************************************************************************)
(* Proofs about IndexStack, for every IndexMax and all limits and          *)
(* increments: what holds of every stack, that its growth in closed form   *)
(* is the loop of the code, that it implements the pool until a sum wraps, *)
(* and that none wraps when the sums stay within 16 bits (NoWrap).         *)
(***************************************************************************)
EXTENDS IndexStackLoops, IndexStackOpsProofs, WellFoundedInduction

(***************************************************************************)
(* The stack every call starts from after growing what it needs.           *)
(***************************************************************************)

\* What the invariant says of a stack that has not faulted.
LEMMA Sound ==
  ASSUME IInv, phase # "faulted"
  PROVE  /\ stack \in StackType /\ WellFormed(stack)
         /\ attribute \in [Index -> BOOLEAN]
         /\ \A i \in Index : attribute[i] => i < stack.max /\ stack.loc[i] # NIL
BY DEF IInv, TypeOK, WrapOnlyAtTheEnd, ListsAreInverse, AttributesInUse, InUse

\* After index_stack_free_head () has expanded an empty free list, and the list has a
\* head, the stack has grown.
LEMMA StockedWellFormed ==
  ASSUME stack \in StackType, WellFormed(stack),
         stack.nfree # 0 \/ ~Full(stack), Stocked.nfree # 0
  PROVE  /\ Stocked \in StackType /\ WellFormed(Stocked)
         /\ Stocked.nfree # 0 /\ stack.max <= Stocked.max
         /\ Stocked.n = stack.n /\ Stocked.loc = stack.loc
         /\ Stocked.inUse = stack.inUse
         /\ Stocked.limit = stack.limit /\ Stocked.increment = stack.increment
<1>1. stack \in StackType /\ WellFormed(stack)
  OBVIOUS
<1>2. CASE stack.nfree # 0
  BY <1>1, <1>2, StackFields, Words DEF Stocked
<1>3. CASE stack.nfree = 0
  <2>1. stack.max + stack.increment <= IndexMax
    <3>1. CASE stack.max + stack.increment > IndexMax
      BY <1>1, <1>3, <3>1, ExpandWraps DEF Stocked
    <3>2. QED
      BY <1>1, <3>1, StackFields, Words
  <2>2. PICK m \in Int : stack.max < m /\ m <= stack.limit /\ Expand(stack) = Extend(stack, m)
    BY <1>1, <1>3, <2>1, ExpandGrows
  <2>3. Stocked = Extend(stack, m)
    BY <1>3, <2>2 DEF Stocked
  <2>4. stack.max \in Int /\ stack.max <= m
    BY <1>1, <2>2, StackFields, Words
  <2>5. QED
    BY <1>1, <1>3, <2>2, <2>3, <2>4, ExtendWellFormed
<1>4. QED
  BY <1>2, <1>3

\* So does the loop of index_stack_allocate (), whatever index it is asked for.
LEMMA ReachedWellFormed ==
  ASSUME stack \in StackType, WellFormed(stack), NEW index \in Word
  PROVE  /\ Reached(index) \in StackType /\ WellFormed(Reached(index))
         /\ stack.max <= Reached(index).max
         /\ Reached(index).n = stack.n /\ Reached(index).loc = stack.loc
         /\ Reached(index).inUse = stack.inUse
         /\ Reached(index).limit = stack.limit
         /\ Reached(index).increment = stack.increment
         /\ index < stack.limit => index < Reached(index).max
BY ExpandUntilWellFormed DEF Reached

\* Limits and increments that cannot wrap never make the allocate loop wrap.
LEMMA NoLoopWraps ==
  ASSUME NEW s \in StackType, WellFormed(s), s.limit + s.increment <= IndexMax + 1,
         NEW index \in Word
  PROVE  ~LoopWraps(s, index)
<1>1. CASE Full(s)
  BY <1>1 DEF LoopWraps
<1>2. CASE ~Full(s)
  <2>1. /\ LastSum(s) \in Int /\ LastSum(s) - s.increment < s.limit
        /\ s.limit \in Int /\ s.increment \in Int /\ IndexMax \in Int
    BY <1>2, LastSumBounds, StackFields, Words
  <2>2. QED
    BY <2>1 DEF LoopWraps
<1>3. QED
  BY <1>1, <1>2

(***************************************************************************)
(* The inductive invariant.                                                *)
(***************************************************************************)
LEMMA InitIInv == Init => IInv
<1> SUFFICES ASSUME Init PROVE IInv
  OBVIOUS
<1>1. /\ stack \in StackType /\ WellFormed(stack) /\ stack.limit = 2 /\ stack.increment = 1
      /\ phase = "none" /\ stack = NoStack
  <2>1. 2 \in 2 .. IndexMax /\ 1 \in Word
    BY Words
  <2>2. QED
    BY <2>1, NewStackWellFormed DEF Init, NoStack
<1>2. attribute \in [Index -> BOOLEAN] /\ \A i \in Index : ~attribute[i]
  BY DEF Init, NoneHeld
<1>3. sweep \in [n : Word, status : {HMESH_NO_ERROR, HMESH_ERROR}]
  BY Words DEF Init, NoSweep
<1>4. QED
  BY <1>1, <1>2, <1>3, Words
     DEF IInv, TypeOK, WrapOnlyAtTheEnd, ListsAreInverse, AttributesInUse, SweepKeepsHeld

\* A step that leaves a live stack in a well-formed state, and gives up no
\* index that carries an attribute, keeps the invariant.
LEMMA LiveStep ==
  ASSUME IInv, phase = "live", phase' = "live", sweep' = sweep,
         stack' \in StackType, WellFormed(stack)', stack'.limit = stack.limit,
         stack'.increment = stack.increment,
         attribute' \in [Index -> BOOLEAN],
         \A i \in Index : attribute'[i] => i < stack'.max /\ stack'.loc[i] # NIL
  PROVE  IInv'
BY DEF IInv, TypeOK, WrapOnlyAtTheEnd, ListsAreInverse, AttributesInUse, SweepKeepsHeld, InUse

\* FreshAttributes keeps attributes only of indices that were in use.
LEMMA FreshAttributesInUse ==
  ASSUME IInv, phase # "faulted", NEW s, FreshAttributes(s)
  PROVE  /\ attribute' \in [Index -> BOOLEAN]
         /\ \A i \in Index : attribute'[i] => i < stack.max /\ stack.loc[i] # NIL
BY DEF FreshAttributes, IInv, TypeOK, AttributesInUse, InUse

LEMMA CreateStep ==
  ASSUME IInv, NEW limit \in Limits, NEW increment \in Increments,
         Create(limit, increment)
  PROVE  /\ IInv'
         /\ stack'.limit = limit
         /\ stack'.increment = IF increment = 0 THEN 1 ELSE increment
<1>1. limit \in 2 .. IndexMax /\ increment \in Word
  BY ArgumentsAssumption DEF ArgumentsAssumption
<1>2. /\ stack' \in StackType /\ WellFormed(stack)'
      /\ stack'.limit = limit /\ stack'.increment = IF increment = 0 THEN 1 ELSE increment
  BY <1>1, NewStackWellFormed DEF Create
<1>3. /\ phase' = "live" /\ sweep' = sweep
      /\ attribute' \in [Index -> BOOLEAN] /\ \A i \in Index : ~attribute'[i]
  BY DEF Create, NoneHeld
<1>4. QED
  BY <1>2, <1>3
     DEF IInv, TypeOK, WrapOnlyAtTheEnd, ListsAreInverse, AttributesInUse, SweepKeepsHeld

LEMMA FreeHeadStep ==
  ASSUME IInv, NEW isPop \in BOOLEAN, FreeHead(isPop)
  PROVE  IInv'
<1>1. /\ stack.nfree # 0 \/ ~Full(stack)
      /\ Stocked.nfree # 0 /\ phase # "faulted"
      /\ stack \in StackType /\ WellFormed(stack)
  BY Sound DEF FreeHead
<1>2. /\ Stocked \in StackType /\ WellFormed(Stocked) /\ Stocked.nfree # 0
      /\ stack.max <= Stocked.max /\ Stocked.loc = stack.loc
      /\ Stocked.limit = stack.limit /\ Stocked.increment = stack.increment
  BY <1>1, StockedWellFormed
<1>3. /\ phase = "live" /\ phase' = "live" /\ sweep' = sweep
      /\ stack' = (IF isPop THEN Pop(Stocked) ELSE Stocked)
      /\ FreshAttributes(Stocked)
  BY DEF FreeHead
<1>4. /\ attribute' \in [Index -> BOOLEAN]
      /\ \A i \in Index : attribute'[i] => i < stack.max /\ stack.loc[i] # NIL
  BY <1>3, FreshAttributesInUse
<1>5. /\ stack' \in StackType /\ WellFormed(stack)' /\ stack'.max = Stocked.max
      /\ stack'.limit = stack.limit /\ stack'.increment = stack.increment
      /\ \A j \in Index : stack.loc[j] # NIL => stack'.loc[j] # NIL
  <2>1. CASE ~isPop
    BY <1>2, <1>3, <2>1
  <2>2. CASE isPop
    <3> DEFINE h == Head(Stocked)
    <3>1. h \in Index /\ Stocked.locFree[h] # NIL /\ stack' = Claim(Stocked, h)
      BY <1>2, <1>3, <2>2, PopIsClaim
    <3> HIDE DEF h
    <3>2. /\ stack' \in StackType /\ WellFormed(stack)' /\ stack'.max = Stocked.max
          /\ stack'.limit = Stocked.limit /\ stack'.increment = Stocked.increment
          /\ stack'.loc = [Stocked.loc EXCEPT ![h] = Stocked.n]
          /\ Stocked.n \in Index /\ Stocked.loc \in [Index -> Word]
      BY <1>2, <3>1, ClaimWellFormed, StackFields
    <3>3. QED
      BY <1>2, <3>1, <3>2, Words
  <2>3. QED
    BY <2>1, <2>2
<1>6. \A i \in Index : attribute'[i] => i < stack'.max /\ stack'.loc[i] # NIL
  <2>1. stack.max \in Int /\ Stocked.max \in Int
    BY <1>2, StackFields, Words DEF IInv, TypeOK
  <2>2. QED
    BY <1>2, <1>4, <1>5, <2>1, Words
<1>7. QED
  BY <1>3, <1>4, <1>5, <1>6, LiveStep

LEMMA AllocateStep ==
  ASSUME IInv, NEW index \in Word, Allocate(index) \/ AllocateRefused(index)
  PROVE  IInv'
<1> DEFINE r == Reached(index)
<1>0. stack \in StackType /\ WellFormed(stack) /\ phase # "faulted"
  BY Sound DEF Allocate, AllocateRefused
<1>1. /\ r \in StackType /\ WellFormed(r)
      /\ stack.max <= r.max /\ r.loc = stack.loc
      /\ r.limit = stack.limit /\ r.increment = stack.increment
  BY <1>0, ReachedWellFormed
<1>2. /\ phase = "live" /\ phase' = "live" /\ sweep' = sweep /\ FreshAttributes(r)
      /\ \/ stack' = r
         \/ stack' = Claim(r, index) /\ index < r.max /\ r.locFree[index] # NIL
  BY DEF Allocate, AllocateRefused, CanAllocate
<1> HIDE DEF r
<1>3. /\ attribute' \in [Index -> BOOLEAN]
      /\ \A i \in Index : attribute'[i] => i < stack.max /\ stack.loc[i] # NIL
  BY <1>2, FreshAttributesInUse
<1>4. /\ stack' \in StackType /\ WellFormed(stack)' /\ stack'.max = r.max
      /\ stack'.limit = stack.limit /\ stack'.increment = stack.increment
      /\ \A j \in Index : stack.loc[j] # NIL => stack'.loc[j] # NIL
  <2>1. CASE stack' = r
    BY <1>1, <2>1
  <2>2. CASE stack' = Claim(r, index) /\ index < r.max /\ r.locFree[index] # NIL
    <3>1. index \in Index
      BY <1>1, <2>2, StackFields, Words
    <3>2. /\ stack' \in StackType /\ WellFormed(stack)' /\ stack'.max = r.max
          /\ stack'.limit = r.limit /\ stack'.increment = r.increment
          /\ stack'.loc = [r.loc EXCEPT ![index] = r.n]
          /\ r.n \in Index /\ r.loc \in [Index -> Word]
      BY <1>1, <2>2, <3>1, ClaimWellFormed, StackFields
    <3>3. QED
      BY <1>1, <3>1, <3>2, Words
  <2>3. QED
    BY <1>2, <2>1, <2>2
<1>5. \A i \in Index : attribute'[i] => i < stack'.max /\ stack'.loc[i] # NIL
  <2>1. stack.max \in Int /\ r.max \in Int
    BY <1>1, StackFields, Words DEF IInv, TypeOK
  <2>2. QED
    BY <1>1, <1>3, <1>4, <2>1, Words
<1>6. QED
  BY <1>2, <1>3, <1>4, <1>5, LiveStep

LEMMA DeallocateStep ==
  ASSUME IInv, NEW index \in Word, Deallocate(index)
  PROVE  IInv'
<1>1. /\ phase = "live" /\ phase' = "live" /\ sweep' = sweep /\ attribute' = attribute
      /\ index < stack.max /\ stack.loc[index] # NIL /\ ~attribute[index]
      /\ stack' = Release(stack, index)
  BY DEF Deallocate, CanDeallocate, InUse
<1>2. stack \in StackType /\ WellFormed(stack) /\ attribute \in [Index -> BOOLEAN]
  BY <1>1, Sound
<1>3. index \in Index
  BY <1>1, <1>2, StackFields, Words
<1>4. /\ stack' \in StackType /\ WellFormed(stack)' /\ stack'.max = stack.max
      /\ stack'.limit = stack.limit /\ stack'.increment = stack.increment
      /\ \A j \in Index : stack'.loc[j] # NIL <=> stack.loc[j] # NIL /\ j # index
  <2> DEFINE t == Release(stack, index)
  <2>1. stack.loc[index] # NIL /\ stack' = t
    BY <1>1
  <2>2. /\ t \in StackType /\ WellFormed(t) /\ t.max = stack.max
        /\ t.limit = stack.limit /\ t.increment = stack.increment
        /\ \A j \in Index : t.loc[j] # NIL <=> stack.loc[j] # NIL /\ j # index
    BY <1>2, <1>3, <2>1, ReleaseWellFormed
  <2> HIDE DEF t
  <2>3. QED
    BY <2>1, <2>2
<1>5. \A i \in Index : attribute'[i] => i < stack'.max /\ stack'.loc[i] # NIL
  BY <1>1, <1>4 DEF IInv, AttributesInUse, InUse
<1>6. QED
  BY <1>1, <1>2, <1>4, <1>5, LiveStep

\* One iteration of index_stack_destroy (): the swap inside deallocate moves an
\* index that was kept into the place just passed.
LEMMA DestroyStepStep ==
  ASSUME IInv, DestroyStep
  PROVE  IInv'
<1> DEFINE k == sweep.n
           index == stack.inUse[k - 1]
<1>1. /\ stack \in StackType /\ WellFormed(stack) /\ attribute \in [Index -> BOOLEAN]
      /\ phase = "sweeping" /\ phase' = "sweeping" /\ attribute' = attribute
      /\ k \in Int /\ 0 < k /\ k <= stack.n /\ stack.n \in Int /\ stack.n <= IndexMax
      /\ sweep.status \in {HMESH_NO_ERROR, HMESH_ERROR}
      /\ stack.inUse \in [Index -> Word] /\ stack.loc \in [Index -> Word]
      /\ IndexMax \in Int
  BY StackFields, Words
     DEF IInv, TypeOK, WrapOnlyAtTheEnd, ListsAreInverse, SweepKeepsHeld, DestroyStep
<1>2. k - 1 \in Index /\ index \in Index /\ index < stack.max /\ stack.loc[index] = k - 1
  <2>1. k - 1 \in Index /\ k - 1 < stack.n
    BY <1>1, Words
  <2>2. stack.max <= IndexMax /\ stack.max \in Int
    BY <1>1, StackFields, Words
  <2>3. stack.inUse[k - 1] < stack.max /\ stack.loc[stack.inUse[k - 1]] = k - 1
    BY <1>1, <2>1 DEF WellFormed, Mutual
  <2>4. QED
    BY <1>1, <2>1, <2>2, <2>3, Words
<1>3. /\ \A p \in Index : k <= p /\ p < stack.n => attribute[stack.inUse[p]]
      /\ (sweep.status = HMESH_ERROR) <=> (k < stack.n)
      /\ \A i \in Index : attribute[i] => i < stack.max /\ stack.loc[i] # NIL
  BY <1>1, Words DEF IInv, SweepKeepsHeld, AttributesInUse, InUse
<1>4. CanDeallocate(index) <=> ~attribute[index]
  BY <1>2, Words DEF CanDeallocate, InUse
<1> HIDE DEF k, index
<1>5. CASE ~attribute[index]
  <2>1. stack' = Release(stack, index) /\ sweep' = [sweep EXCEPT !.n = k - 1]
    BY <1>4, <1>5 DEF DestroyStep, k, index
  <2>2. stack.loc[index] # NIL
    BY <1>2, Words
  <2>3. /\ stack' \in StackType /\ WellFormed(stack)' /\ stack'.max = stack.max
        /\ stack'.limit = stack.limit /\ stack'.increment = stack.increment
        /\ stack'.n = stack.n - 1 /\ stack.n - 1 \in Index
        /\ stack'.inUse
             = [stack.inUse EXCEPT ![stack.loc[index]] = stack.inUse[stack.n - 1],
                                   ![stack.n - 1] = NIL]
        /\ \A j \in Index : stack'.loc[j] # NIL <=> stack.loc[j] # NIL /\ j # index
    <3> DEFINE t == Release(stack, index)
    <3>1. /\ t \in StackType /\ WellFormed(t) /\ t.max = stack.max
          /\ t.limit = stack.limit /\ t.increment = stack.increment
          /\ t.n = stack.n - 1 /\ stack.n - 1 \in Index
          /\ t.inUse = [stack.inUse EXCEPT ![stack.loc[index]] = stack.inUse[stack.n - 1],
                                           ![stack.n - 1] = NIL]
          /\ \A j \in Index : t.loc[j] # NIL <=> stack.loc[j] # NIL /\ j # index
      BY <1>1, <1>2, <2>2, ReleaseWellFormed
    <3>2. stack' = t
      BY <2>1
    <3> HIDE DEF t
    <3>3. QED
      BY <3>1, <3>2
  <2>4. \A p \in Index : p < stack.n - 1 =>
          stack'.inUse[p] = IF p = k - 1 THEN stack.inUse[stack.n - 1] ELSE stack.inUse[p]
    BY <1>1, <1>2, <2>3, Words
  <2>5. sweep'.n = k - 1 /\ sweep'.status = sweep.status
        /\ sweep' \in [n : Word, status : {HMESH_NO_ERROR, HMESH_ERROR}]
    BY <1>1, <1>2, <2>1, Words DEF IInv, TypeOK
  <2>6. \A p \in Index : k - 1 <= p /\ p < stack'.n => attribute'[stack'.inUse[p]]
    BY <1>1, <1>2, <1>3, <2>3, <2>4, Words
  <2>7. (sweep'.status = HMESH_ERROR) <=> (k - 1 < stack'.n)
    BY <1>1, <1>3, <2>3, <2>5
  <2>8. \A i \in Index : attribute'[i] => i < stack'.max /\ stack'.loc[i] # NIL
    BY <1>1, <1>3, <1>5, <2>3
  <2>9. SweepKeepsHeld'
    BY <1>1, <2>3, <2>5, <2>6, <2>7, Words DEF SweepKeepsHeld
  <2>10. QED
    BY <1>1, <2>3, <2>5, <2>8, <2>9
       DEF IInv, TypeOK, WrapOnlyAtTheEnd, ListsAreInverse, AttributesInUse, InUse
<1>6. CASE attribute[index]
  <2>1. stack' = stack /\ sweep' = [n |-> k - 1, status |-> HMESH_ERROR]
    BY <1>4, <1>6 DEF DestroyStep, k, index
  <2>2. sweep' \in [n : Word, status : {HMESH_NO_ERROR, HMESH_ERROR}]
    BY <1>2, <2>1, Words
  <2>3. \A p \in Index : k - 1 <= p /\ p < stack.n => attribute[stack.inUse[p]]
    BY <1>1, <1>2, <1>3, <1>6, Words DEF index
  <2>4. SweepKeepsHeld'
    BY <1>1, <2>1, <2>3, Words DEF SweepKeepsHeld
  <2>5. QED
    BY <1>1, <2>1, <2>2, <2>4 DEF IInv, TypeOK, WrapOnlyAtTheEnd, ListsAreInverse, AttributesInUse, InUse
<1>7. QED
  BY <1>5, <1>6

LEMMA DestroyReturnsStep ==
  ASSUME IInv, DestroyReturns
  PROVE  IInv'
<1>1. sweep' \in [n : Word, status : {HMESH_NO_ERROR, HMESH_ERROR}]
  BY Words DEF DestroyReturns, NoSweep
<1>2. CASE sweep.status = HMESH_ERROR
  <2>1. phase = "sweeping" /\ phase' = "live" /\ stack' = stack /\ attribute' = attribute
    BY <1>2 DEF DestroyReturns, HMESH_ERROR, HMESH_NO_ERROR
  <2>2. QED
    BY <1>1, <2>1 DEF IInv, TypeOK, WrapOnlyAtTheEnd, ListsAreInverse, AttributesInUse, SweepKeepsHeld
<1>3. CASE sweep.status = HMESH_NO_ERROR
  <2>1. phase' = "none" /\ stack' = NoStack /\ attribute' = NoneHeld
    BY <1>3 DEF DestroyReturns, HMESH_ERROR, HMESH_NO_ERROR
  <2>2. 2 \in 2 .. IndexMax /\ 1 \in Word
    BY Words
  <2>3. /\ stack' \in StackType /\ WellFormed(stack)'
        /\ stack'.limit = 2 /\ stack'.increment = 1
    BY <2>1, <2>2, NewStackWellFormed DEF NoStack
  <2>4. attribute' \in [Index -> BOOLEAN] /\ \A i \in Index : ~attribute'[i]
    BY <2>1 DEF NoneHeld
  <2>5. QED
    BY <1>1, <2>1, <2>3, <2>4, Words
       DEF IInv, TypeOK, WrapOnlyAtTheEnd, ListsAreInverse, AttributesInUse, SweepKeepsHeld
<1>4. QED
  BY <1>2, <1>3 DEF IInv, TypeOK

LEMMA OtherSteps ==
  ASSUME IInv,
         \/ \E isPop \in BOOLEAN : FreeHeadOutOfIndex(isPop)
         \/ \E index \in Word : DeallocateRefused(index) \/ DeallocateCrashes(index)
         \/ Destroy
         \/ \E index \in Index : SetAttribute(index) \/ FreeAttribute(index)
         \/ UNCHANGED vars
  PROVE  IInv'
<1>1. CASE \/ \E isPop \in BOOLEAN : FreeHeadOutOfIndex(isPop)
           \/ \E index \in Word : DeallocateRefused(index) \/ DeallocateCrashes(index)
           \/ UNCHANGED vars
  BY <1>1 DEF FreeHeadOutOfIndex, DeallocateRefused, DeallocateCrashes, vars,
              IInv, TypeOK, WrapOnlyAtTheEnd, ListsAreInverse, AttributesInUse, SweepKeepsHeld
<1>2. CASE Destroy
  <2>1. /\ phase = "live" /\ phase' = "sweeping" /\ stack' = stack /\ attribute' = attribute
        /\ sweep' = [n |-> stack.n, status |-> HMESH_NO_ERROR]
        /\ stack.n \in Word /\ stack.n \in Int
    BY <1>2, StackFields, Words DEF Destroy, IInv, TypeOK
  <2>2. SweepKeepsHeld'
    BY <2>1, Words DEF SweepKeepsHeld, HMESH_ERROR, HMESH_NO_ERROR
  <2>3. QED
    BY <2>1, <2>2 DEF IInv, TypeOK, WrapOnlyAtTheEnd, ListsAreInverse, AttributesInUse
<1>3. CASE \E index \in Index : SetAttribute(index) \/ FreeAttribute(index)
  <2>1. PICK index \in Index : SetAttribute(index) \/ FreeAttribute(index)
    BY <1>3
  <2>2. /\ phase = "live" /\ phase' = "live" /\ stack' = stack /\ sweep' = sweep
        /\ attribute' \in [Index -> BOOLEAN]
        /\ \A i \in Index : attribute'[i] => InUse(stack, i)
    BY <2>1 DEF SetAttribute, FreeAttribute, IInv, TypeOK, AttributesInUse
  <2>3. QED
    BY <2>2 DEF IInv, TypeOK, WrapOnlyAtTheEnd, ListsAreInverse, AttributesInUse, SweepKeepsHeld, InUse
<1>4. QED
  BY <1>1, <1>2, <1>3

\* The expansion of index_stack_free_head () wrapped: nothing was free, so all of
\* [0, max) was in use, and that is more than limit - increment.
LEMMA FreeHeadFaultsStep ==
  ASSUME IInv, FreeHeadFaults
  PROVE  /\ IInv'
         /\ stack.max + stack.increment > IndexMax
<1>1. /\ phase = "live" /\ phase' = "faulted" /\ attribute' = attribute /\ sweep' = sweep
      /\ stack.nfree = 0 /\ ~Full(stack) /\ Stocked.nfree = 0
      /\ stack' = Expand(stack) /\ Expand(stack).nfree = 0
      /\ stack \in StackType /\ WellFormed(stack)
  BY Sound DEF FreeHeadFaults, Stocked
<1>2. /\ stack.limit \in Int /\ stack.max \in Int /\ stack.increment \in Int
      /\ stack.n \in Int /\ stack.n = stack.max /\ stack.limit <= IndexMax /\ IndexMax \in Int
  BY <1>1, StackFields, Words DEF WellFormed, Partitioned
<1>3. stack.max + stack.increment > IndexMax
  <2>1. ASSUME stack.max + stack.increment <= IndexMax PROVE FALSE
    <3>1. PICK m \in Int : stack.max < m /\ m <= stack.limit /\ Expand(stack) = Extend(stack, m)
      BY <1>1, <2>1, ExpandGrows
    <3>2. Expand(stack).nfree = stack.nfree + (m - stack.max)
      BY <1>1, <1>2, <3>1, ExtendWellFormed
    <3>3. QED
      BY <1>1, <1>2, <3>1, <3>2
  <2>2. QED
    BY <1>2, <2>1
<1>4. /\ stack' \in StackType /\ stack'.n = stack.n /\ stack'.nfree = 0
      /\ stack'.limit = stack.limit /\ stack'.increment = stack.increment
  BY <1>1, <1>3, ExpandWraps
<1>5. QED
  BY <1>1, <1>2, <1>3, <1>4
     DEF IInv, TypeOK, WrapOnlyAtTheEnd, ListsAreInverse, AttributesInUse, SweepKeepsHeld

\* The loop of index_stack_allocate () wrapped: by then the stack has provided all but
\* the last increment.
LEMMA AllocateFaultsStep ==
  ASSUME IInv, NEW index \in Word, AllocateFaults(index)
  PROVE  IInv'
<1> DEFINE M == LastSum(stack) - stack.increment
           m == LastSum(stack) % (IndexMax + 1)
           e == Extend(stack, M)
<1>1. /\ phase = "live" /\ phase' = "faulted" /\ attribute' = attribute /\ sweep' = sweep
      /\ stack' = Truncate(e, m) /\ ~Full(stack) /\ LastSum(stack) > IndexMax
      /\ stack \in StackType /\ WellFormed(stack)
  BY Sound DEF AllocateFaults, LoopWraps
<1>2. /\ LastSum(stack) \in Int /\ stack.max <= M /\ M < stack.limit
      /\ M \in Int /\ M <= stack.limit
      /\ stack.limit \in Int /\ stack.max \in Int /\ stack.increment \in Int
      /\ stack.n \in Int /\ stack.nfree \in Int /\ stack.n + stack.nfree = stack.max
      /\ stack.limit <= IndexMax /\ IndexMax \in Int /\ 2 <= IndexMax
  BY <1>1, LastSumBounds, StackFields, Words DEF WellFormed, Partitioned
<1>3. m \in Word
  BY <1>2, Words
<1>4. /\ e \in StackType /\ e.nfree = stack.nfree + (M - stack.max) /\ e.n = stack.n
      /\ e.limit = stack.limit /\ e.increment = stack.increment
  BY <1>1, <1>2, ExtendWellFormed
<1> HIDE DEF e, m
<1>5. /\ stack' \in StackType /\ stack'.n = stack.n /\ stack'.nfree = e.nfree
      /\ stack'.limit = stack.limit /\ stack'.increment = stack.increment
  BY <1>1, <1>3, <1>4, TruncateType
<1>6. stack'.n + stack'.nfree > stack'.limit - stack'.increment
  BY <1>1, <1>2, <1>4, <1>5
<1>7. QED
  BY <1>1, <1>5, <1>6
     DEF IInv, TypeOK, WrapOnlyAtTheEnd, ListsAreInverse, AttributesInUse, SweepKeepsHeld

LEMMA NextIInv ==
  ASSUME IInv, [Next]_vars
  PROVE  IInv'
<1>1. CASE \E limit \in Limits, increment \in Increments : Create(limit, increment)
  BY <1>1, CreateStep
<1>2. CASE \E isPop \in BOOLEAN : FreeHead(isPop)
  BY <1>2, FreeHeadStep
<1>3. CASE FreeHeadFaults
  BY <1>3, FreeHeadFaultsStep
<1>4. CASE \E index \in Word : Allocate(index) \/ AllocateRefused(index)
  BY <1>4, AllocateStep
<1>5. CASE \E index \in Word : AllocateFaults(index)
  BY <1>5, AllocateFaultsStep
<1>6. CASE \E index \in Word : Deallocate(index)
  BY <1>6, DeallocateStep
<1>7. CASE DestroyStep
  BY <1>7, DestroyStepStep
<1>8. CASE DestroyReturns
  BY <1>8, DestroyReturnsStep
<1>9. CASE \/ \E isPop \in BOOLEAN : FreeHeadOutOfIndex(isPop)
           \/ \E index \in Word : DeallocateRefused(index) \/ DeallocateCrashes(index)
           \/ Destroy
           \/ \E index \in Index : SetAttribute(index) \/ FreeAttribute(index)
           \/ UNCHANGED vars
  BY <1>9, OtherSteps
<1>10. QED
  BY <1>1, <1>2, <1>3, <1>4, <1>5, <1>6, <1>7, <1>8, <1>9 DEF Next

\* The invariant holds of every behaviour, whatever limits and increments.
THEOREM Invariance == Spec => []IInv
<1>1. IInv /\ [Next]_vars => IInv'
  BY NextIInv
<1>2. QED
  BY <1>1, InitIInv, PTL DEF Spec

\* The fields keep the width of their C types, on a stack whose growth wraps too.
THEOREM TypeCorrect == Spec => []TypeOK
<1>1. IInv => TypeOK
  BY DEF IInv
<1>2. QED
  BY <1>1, Invariance, PTL

\* A stack whose growth wraps is sound until it has provided more than
\* limit - increment indices, and faults only then.
THEOREM SoundUntilTheEnd == Spec => []WrapOnlyAtTheEnd
<1>1. IInv => WrapOnlyAtTheEnd
  BY DEF IInv
<1>2. QED
  BY <1>1, Invariance, PTL

\* index_stack_destroy () frees exactly the indices without an attribute.
THEOREM DestroyKeepsHeld == Spec => []SweepKeepsHeld
<1>1. IInv => SweepKeepsHeld
  BY DEF IInv
<1>2. QED
  BY <1>1, Invariance, PTL

\* common.h: "indices [0, max) are either in use/free", with both lists the
\* inverse of their place arrays, in every state until a sum wraps.
THEOREM EveryIndexUsedOrFree == Spec => [](InUseOrFree /\ ListsAreInverse)
<1>1. IInv => InUseOrFree /\ ListsAreInverse
  BY DEF IInv, InUseOrFree, ListsAreInverse, WellFormed
<1>2. QED
  BY <1>1, Invariance, PTL

\* Only indices in use carry an attribute.
THEOREM AttributesOnlyInUse == Spec => []AttributesInUse
<1>1. IInv => AttributesInUse
  BY DEF IInv
<1>2. QED
  BY <1>1, Invariance, PTL

(***************************************************************************)
(* Stacks whose growth cannot wrap.                                        *)
(***************************************************************************)

\* No step of such a stack leads into a fault.
LEMMA NextNeverFaults ==
  ASSUME NoWrap, IInv, NeverFaults, [Next]_vars
  PROVE  NeverFaults'
<1>1. /\ phase # "faulted" /\ stack.limit + stack.increment <= IndexMax + 1
      /\ stack \in StackType /\ WellFormed(stack)
  BY Sound DEF NeverFaults
<1>2. CASE \E limit \in Limits, increment \in Increments : Create(limit, increment)
  <2>1. PICK limit \in Limits, increment \in Increments : Create(limit, increment)
    BY <1>2
  <2>2. /\ limit \in 2 .. IndexMax /\ increment \in Word /\ limit + increment <= IndexMax + 1
    BY ArgumentsAssumption DEF ArgumentsAssumption, NoWrap
  <2>3. phase' = "live" /\ stack'.limit = limit
        /\ stack'.increment = IF increment = 0 THEN 1 ELSE increment
    BY <2>1, CreateStep DEF Create
  <2>4. QED
    BY <2>2, <2>3, Words DEF NeverFaults
<1>3. CASE \E isPop \in BOOLEAN : FreeHead(isPop)
  <2>1. PICK isPop \in BOOLEAN : FreeHead(isPop)
    BY <1>3
  <2>2. /\ Stocked \in StackType /\ WellFormed(Stocked) /\ Stocked.nfree # 0
        /\ Stocked.limit = stack.limit /\ Stocked.increment = stack.increment
    BY <1>1, <2>1, StockedWellFormed DEF FreeHead
  <2> DEFINE t == Claim(Stocked, Head(Stocked))
  <2>3. stack' = Stocked \/ stack' = t
    BY <2>1, <2>2, PopIsClaim DEF FreeHead
  <2>4. t.limit = Stocked.limit /\ t.increment = Stocked.increment
    BY <2>2, ClaimWellFormed, PopIsClaim
  <2> HIDE DEF t
  <2>5. QED
    BY <1>1, <2>1, <2>2, <2>3, <2>4 DEF FreeHead, NeverFaults
<1>4. CASE FreeHeadFaults
  <2>1. stack.max + stack.increment > IndexMax /\ ~Full(stack)
    BY <1>4, FreeHeadFaultsStep DEF FreeHeadFaults
  <2>2. QED
    BY <1>1, <2>1, StackFields, Words DEF WellFormed, Partitioned, Full
<1>5. CASE \E index \in Word : Allocate(index) \/ AllocateRefused(index)
  <2>1. PICK index \in Word : Allocate(index) \/ AllocateRefused(index)
    BY <1>5
  <2> DEFINE r == Reached(index)
  <2>2. /\ r \in StackType /\ WellFormed(r) /\ r.max \in Word
        /\ r.limit = stack.limit /\ r.increment = stack.increment
    BY <1>1, ReachedWellFormed, StackFields
  <2> DEFINE t == Claim(r, index)
  <2>3. stack' = r \/ (stack' = t /\ index < r.max /\ r.locFree[index] # NIL)
    BY <2>1 DEF Allocate, AllocateRefused, CanAllocate
  <2> HIDE DEF r
  <2>4. ASSUME index < r.max, r.locFree[index] # NIL
        PROVE  t.limit = r.limit /\ t.increment = r.increment
    <3>1. index \in Index
      BY <2>2, <2>4, Words
    <3>2. QED
      BY <2>2, <2>4, <3>1, ClaimWellFormed
  <2> HIDE DEF t
  <2>5. QED
    BY <1>1, <2>1, <2>2, <2>3, <2>4 DEF Allocate, AllocateRefused, NeverFaults
<1>6. CASE \E index \in Word : AllocateFaults(index)
  BY <1>1, <1>6, NoLoopWraps DEF AllocateFaults
<1>7. ASSUME NEW index \in Word, InUse(stack, index)
      PROVE  /\ Release(stack, index).limit = stack.limit
             /\ Release(stack, index).increment = stack.increment
  <2>1. index \in Index /\ stack.loc[index] # NIL
    BY <1>1, <1>7, StackFields, Words DEF InUse
  <2>2. QED
    BY <1>1, <2>1, ReleaseWellFormed
<1>8. CASE \E index \in Word : Deallocate(index)
  BY <1>1, <1>7, <1>8 DEF Deallocate, CanDeallocate, NeverFaults
<1>9. CASE DestroyStep
  <2>1. phase' = "sweeping"
    BY <1>9 DEF DestroyStep
  <2> DEFINE index == stack.inUse[sweep.n - 1]
  <2>2. index \in Word
    <3>1. /\ sweep.n \in Int /\ 0 < sweep.n /\ sweep.n <= stack.n /\ stack.n \in Int
          /\ stack.n <= IndexMax
      BY <1>1, <1>9, StackFields, Words DEF IInv, TypeOK, SweepKeepsHeld, DestroyStep
    <3>2. sweep.n - 1 \in Index
      BY <3>1, Words
    <3>3. QED
      BY <1>1, <3>2, StackFields
  <2>3. stack' = stack \/ (stack' = Release(stack, index) /\ InUse(stack, index))
    BY <1>9 DEF DestroyStep, CanDeallocate
  <2> HIDE DEF index
  <2>4. QED
    BY <1>1, <1>7, <2>1, <2>2, <2>3 DEF NeverFaults
<1>10. CASE DestroyReturns
  <2>1. /\ phase' # "faulted"
        /\ stack' = stack \/ stack' = NoStack
    BY <1>10 DEF DestroyReturns
  <2>2. 2 \in 2 .. IndexMax /\ 1 \in Word
    BY Words
  <2>3. NoStack.limit = 2 /\ NoStack.increment = 1
    BY <2>2, NewStackWellFormed DEF NoStack
  <2>4. QED
    BY <1>1, <2>1, <2>3, Words DEF NeverFaults
<1>11. CASE \/ \E isPop \in BOOLEAN : FreeHeadOutOfIndex(isPop)
            \/ \E index \in Word : DeallocateRefused(index) \/ DeallocateCrashes(index)
            \/ Destroy
            \/ \E index \in Index : SetAttribute(index) \/ FreeAttribute(index)
            \/ UNCHANGED vars
  BY <1>1, <1>11 DEF FreeHeadOutOfIndex, DeallocateRefused, DeallocateCrashes, Destroy,
                     SetAttribute, FreeAttribute, vars, NeverFaults
<1>12. QED
  BY <1>2, <1>3, <1>4, <1>5, <1>6, <1>8, <1>9, <1>10, <1>11 DEF Next

\* A stack whose sums stay within 16 bits never faults.
THEOREM NoFault ==
  ASSUME NoWrap
  PROVE  Spec => []NeverFaults
<1>1. Init => NeverFaults
  <2>1. 2 \in 2 .. IndexMax /\ 1 \in Word
    BY Words
  <2>2. NoStack.limit = 2 /\ NoStack.increment = 1
    BY <2>1, NewStackWellFormed DEF NoStack
  <2>3. QED
    BY <2>2, Words DEF Init, NeverFaults
<1>2. IInv /\ NeverFaults /\ [Next]_vars => NeverFaults'
  BY NextNeverFaults
<1>3. QED
  BY <1>1, <1>2, Invariance, PTL DEF Spec

(***************************************************************************)
(* The stack implements the pool of indices, until a sum wraps.            *)
(***************************************************************************)

\* What the pool shows of a stack in use.
LEMMA PoolOfStack ==
  ASSUME IInv, phase # "none", phase # "faulted"
  PROVE  /\ PoolLimit = stack.limit /\ stack.limit \in Int /\ stack.limit > 0
         /\ stack.limit <= IndexMax
         /\ PoolUsed = UsedSet(stack) /\ PoolFree = FreeSet(stack)
         /\ PoolUsed = {i \in Index : stack.loc[i] # NIL}
         /\ PoolUsed \cup PoolFree = 0 .. stack.max - 1
         /\ PoolFree = (0 .. stack.max - 1) \ PoolUsed
         /\ stack.max \in Int /\ 0 <= stack.max /\ stack.max <= stack.limit
         /\ PoolHeld \subseteq PoolUsed
<1>1. /\ stack \in StackType /\ WellFormed(stack)
      /\ \A i \in Index : attribute[i] => i < stack.max /\ stack.loc[i] # NIL
  BY Sound
<1>2. /\ UsedSet(stack) = {i \in Index : stack.loc[i] # NIL}
      /\ UsedSet(stack) \subseteq 0 .. stack.max - 1
      /\ FreeSet(stack) = (0 .. stack.max - 1) \ UsedSet(stack)
      /\ stack.max \in Int /\ 0 <= stack.max /\ stack.max <= stack.limit
  BY <1>1, UsedAndFree
<1>3. stack.limit \in Int /\ stack.limit > 0 /\ stack.limit <= IndexMax
  BY <1>1, StackFields, Words
<1>4. QED
  BY <1>1, <1>2, <1>3 DEF PoolLimit, PoolUsed, PoolFree, PoolHeld

\* Growing clears the attributes of new indices, which had none.
LEMMA NothingForgotten ==
  ASSUME IInv, phase # "faulted", NEW s, FreshAttributes(s)
  PROVE  attribute' = attribute
<1>1. /\ attribute \in [Index -> BOOLEAN]
      /\ \A i \in Index : attribute[i] => i < stack.max
  BY Sound
<1>2. stack.max \in Int
  BY Sound, StackFields, Words
<1>3. \A i \in Index : (attribute[i] /\ i \notin stack.max .. s.max - 1) = attribute[i]
  BY <1>1, <1>2, Words
<1>4. attribute' = [i \in Index |-> attribute[i] /\ i \notin stack.max .. s.max - 1]
  BY DEF FreshAttributes
<1>5. QED
  BY <1>1, <1>3, <1>4

\* A call that leaves a stack at least as large provides what the pool may.
LEMMA Provides ==
  ASSUME IInv, phase = "live", phase' = "live",
         stack' \in StackType, WellFormed(stack)', stack.max <= stack'.max,
         stack'.limit = stack.limit
  PROVE  /\ Pool!Provide(PoolUsed') /\ PoolLimit' = PoolLimit /\ Ending' = Ending
         /\ Pool!Serving
         /\ PoolUsed' = UsedSet(stack') /\ PoolFree' = FreeSet(stack')
<1>1. /\ PoolLimit = stack.limit /\ PoolUsed \cup PoolFree = 0 .. stack.max - 1
      /\ stack.max \in Int /\ 0 <= stack.max /\ stack.limit \in Int /\ stack.limit > 0
  BY PoolOfStack
<1>2. /\ UsedSet(stack') \subseteq 0 .. stack'.max - 1
      /\ FreeSet(stack') = (0 .. stack'.max - 1) \ UsedSet(stack')
      /\ stack'.max \in Int /\ stack'.max <= stack'.limit
  <2>1. WellFormed(stack')
    OBVIOUS
  <2>2. QED
    BY <2>1, UsedAndFree
<1>3. /\ PoolUsed' = UsedSet(stack') /\ PoolFree' = FreeSet(stack')
      /\ PoolLimit' = stack'.limit /\ Ending' = Ending /\ ~Ending
  BY DEF PoolUsed, PoolFree, PoolLimit, Ending
<1>4. stack'.max \in 0 .. PoolLimit /\ 0 .. stack.max - 1 \subseteq 0 .. stack'.max - 1
  BY <1>1, <1>2
<1>5. QED
  BY <1>1, <1>2, <1>3, <1>4 DEF Pool!Provide, Pool!Serving

LEMMA PoolCreate ==
  ASSUME IInv, NEW limit \in Limits, NEW increment \in Increments, Create(limit, increment)
  PROVE  Pool!Next
<1>1. limit \in 2 .. IndexMax /\ increment \in Word
  BY ArgumentsAssumption DEF ArgumentsAssumption
<1>2. /\ stack' \in StackType /\ WellFormed(stack') /\ stack'.max \in 1 .. limit
      /\ stack'.limit = limit /\ stack'.loc = [i \in Index |-> NIL]
  BY <1>1, NewStackWellFormed DEF Create
<1>3. UsedSet(stack') = {} /\ FreeSet(stack') = 0 .. stack'.max - 1
  BY <1>2, UsedAndFree
<1>4. /\ PoolLimit = 0 /\ PoolLimit' = limit /\ PoolUsed' = {}
      /\ PoolFree' = 0 .. stack'.max - 1 /\ PoolHeld' = {} /\ Ending' = Ending
      /\ call' = [op |-> "create", arg |-> limit, ret |-> 0]
  BY <1>2, <1>3 DEF Create, PoolLimit, PoolUsed, PoolFree, PoolHeld, Ending, NoneHeld,
                    Returns, HMESH_NO_ERROR
<1>5. Pool!Create(limit)
  BY <1>2, <1>4 DEF Pool!Create, Pool!Returns
<1>6. QED
  BY <1>1, <1>5 DEF Pool!Next

LEMMA PoolFreeHead ==
  ASSUME IInv, NEW isPop \in BOOLEAN, FreeHead(isPop)
  PROVE  Pool!Next
<1> DEFINE i == Head(Stocked)
<1>1. /\ phase = "live" /\ phase' = "live" /\ FreshAttributes(Stocked)
      /\ stack' = (IF isPop THEN Pop(Stocked) ELSE Stocked)
      /\ call' = [op |-> IF isPop THEN "pop" ELSE "peek", arg |-> NIL, ret |-> i]
      /\ stack \in StackType /\ WellFormed(stack)
  BY Sound DEF FreeHead, Returns, HeadCall
<1>2. /\ Stocked \in StackType /\ WellFormed(Stocked) /\ Stocked.nfree # 0
      /\ stack.max <= Stocked.max /\ Stocked.loc = stack.loc /\ Stocked.limit = stack.limit
  BY <1>1, StockedWellFormed DEF FreeHead
<1>3. i \in Index /\ Stocked.locFree[i] # NIL /\ Pop(Stocked) = Claim(Stocked, i)
  BY <1>2, PopIsClaim
<1>4. attribute' = attribute /\ PoolHeld' = PoolHeld
  BY <1>1, NothingForgotten DEF PoolHeld
<1>5. UsedSet(Stocked) = PoolUsed
  <2>1. UsedSet(Stocked) = {j \in Index : stack.loc[j] # NIL}
    BY <1>2, UsedAndFree
  <2>2. QED
    BY <1>1, <2>1, PoolOfStack
<1>6. /\ i \in FreeSet(Stocked) /\ i \notin PoolUsed
      /\ UsedSet(Claim(Stocked, i)) = PoolUsed \cup {i}
  BY <1>2, <1>3, <1>5, ClaimSets
<1>7. i \in 0 .. PoolLimit - 1
  <2>1. i \in 0 .. Stocked.max - 1 /\ Stocked.max <= Stocked.limit
        /\ Stocked.max \in Int /\ Stocked.limit \in Int
    BY <1>2, <1>6, UsedAndFree
  <2>2. PoolLimit = Stocked.limit
    BY <1>1, <1>2, PoolOfStack
  <2>3. QED
    BY <2>1, <2>2
<1> HIDE DEF i
<1>8. CASE isPop
  <2> DEFINE t == Claim(Stocked, i)
  <2>1. /\ t \in StackType /\ WellFormed(t) /\ t.max = Stocked.max /\ t.limit = Stocked.limit
    BY <1>2, <1>3, ClaimWellFormed
  <2>2. stack' = t /\ UsedSet(t) = PoolUsed \cup {i}
    BY <1>1, <1>3, <1>6, <1>8
  <2> HIDE DEF t
  <2>3. /\ stack' \in StackType /\ WellFormed(stack)' /\ stack.max <= stack'.max
        /\ stack'.limit = stack.limit
    BY <1>2, <2>1, <2>2
  <2>4. /\ Pool!Provide(PoolUsed') /\ PoolLimit' = PoolLimit /\ Ending' = Ending
        /\ Pool!Serving /\ PoolUsed' = PoolUsed \cup {i}
    BY <1>1, <2>2, <2>3, Provides
  <2>5. Pool!PopIndex(i)
    BY <1>1, <1>4, <1>6, <1>7, <1>8, <2>4
       DEF Pool!PopIndex, Pool!Obtain, Pool!Returns, Pool!NIL, NIL
  <2>6. QED
    BY <1>3, <2>5 DEF Pool!Next, Index
<1>9. CASE ~isPop
  <2>1. /\ stack' = Stocked /\ stack' \in StackType /\ WellFormed(stack)'
        /\ stack.max <= stack'.max /\ stack'.limit = stack.limit
    BY <1>1, <1>2, <1>9
  <2>2. /\ Pool!Provide(PoolUsed') /\ PoolLimit' = PoolLimit /\ Ending' = Ending
        /\ Pool!Serving /\ PoolUsed' = PoolUsed /\ i \in PoolFree'
    BY <1>1, <1>5, <1>6, <2>1, Provides
  <2>3. Pool!Peek(i)
    BY <1>1, <1>4, <1>6, <1>7, <1>9, <2>2
       DEF Pool!Peek, Pool!Returns, Pool!NIL, NIL
  <2>4. QED
    BY <1>3, <2>3 DEF Pool!Next, Index
<1>10. QED
  BY <1>8, <1>9

LEMMA PoolOutOfIndex ==
  ASSUME IInv, NEW isPop \in BOOLEAN, FreeHeadOutOfIndex(isPop)
  PROVE  Pool!Next
<1>1. /\ phase = "live" /\ stack.nfree = 0 /\ Full(stack)
      /\ call' = [op |-> IF isPop THEN "pop" ELSE "peek", arg |-> NIL, ret |-> NIL]
      /\ phase' = phase /\ stack' = stack /\ attribute' = attribute
      /\ stack \in StackType /\ WellFormed(stack)
  BY Sound DEF FreeHeadOutOfIndex, Returns, HeadCall
<1>2. UNCHANGED <<PoolLimit, PoolUsed, PoolFree, PoolHeld, Ending>>
  BY <1>1 DEF PoolLimit, PoolUsed, PoolFree, PoolHeld, Ending
<1>3. FreeSet(stack) = {}
  <2>1. \A j \in Index : stack.locFree[j] = NIL
    BY <1>1, StackFields, Words DEF WellFormed, Mutual
  <2>2. QED
    BY <1>1, <2>1, UsedAndFree
<1>4. PoolUsed = 0 .. PoolLimit - 1 /\ PoolLimit > 0 /\ ~Ending
  BY <1>1, <1>3, PoolOfStack DEF Full, Ending
<1>5. Pool!Exhausted(IF isPop THEN "pop" ELSE "peek")
  BY <1>1, <1>2, <1>4 DEF Pool!Exhausted, Pool!Serving, Pool!Returns, Pool!NIL, NIL
<1>6. QED
  BY <1>5 DEF Pool!Next

LEMMA PoolAllocate ==
  ASSUME IInv, NEW index \in Word, Allocate(index) \/ AllocateRefused(index)
  PROVE  Pool!Next
<1> DEFINE r == Reached(index)
<1>1. /\ phase = "live" /\ phase' = "live" /\ FreshAttributes(r)
      /\ stack \in StackType /\ WellFormed(stack)
  BY Sound DEF Allocate, AllocateRefused
<1>2. /\ r \in StackType /\ WellFormed(r) /\ stack.max <= r.max /\ r.loc = stack.loc
      /\ r.limit = stack.limit
      /\ index < stack.limit => index < r.max
  BY <1>1, ReachedWellFormed
<1>3. attribute' = attribute /\ PoolHeld' = PoolHeld
  BY <1>1, NothingForgotten DEF PoolHeld
<1>4. /\ UsedSet(r) = PoolUsed /\ PoolUsed = {j \in Index : stack.loc[j] # NIL}
      /\ PoolLimit = stack.limit /\ stack.limit <= IndexMax /\ stack.limit \in Int
      /\ r.max \in Int /\ r.max <= r.limit
  <2>1. UsedSet(r) = {j \in Index : stack.loc[j] # NIL} /\ r.max \in Int /\ r.max <= r.limit
    BY <1>2, UsedAndFree
  <2>2. QED
    BY <1>1, <2>1, PoolOfStack
<1>5. CASE Allocate(index)
  <2> DEFINE t == Claim(r, index)
  <2>1. /\ stack' = t /\ index < r.max /\ r.locFree[index] # NIL
        /\ call' = [op |-> "allocate", arg |-> index, ret |-> 0]
    BY <1>5 DEF Allocate, CanAllocate, Returns, HMESH_NO_ERROR
  <2> HIDE DEF r
  <2>2. index \in Index /\ index \in 0 .. PoolLimit - 1
    BY <1>2, <1>4, <2>1, Words
  <2>3. /\ t \in StackType /\ WellFormed(t) /\ t.max = r.max /\ t.limit = r.limit
        /\ UsedSet(t) = PoolUsed \cup {index} /\ index \notin PoolUsed
    <3>1. r \in StackType /\ WellFormed(r) /\ index \in Index /\ r.locFree[index] # NIL
      BY <1>2, <2>1, <2>2
    <3>2. t \in StackType /\ WellFormed(t) /\ t.max = r.max /\ t.limit = r.limit
      BY <3>1, ClaimWellFormed
    <3>3. UsedSet(t) = UsedSet(r) \cup {index} /\ index \notin UsedSet(r)
      BY <3>1, ClaimSets
    <3> HIDE DEF t
    <3>4. QED
      BY <1>4, <3>2, <3>3
  <2> HIDE DEF t
  <2>4. /\ stack' \in StackType /\ WellFormed(stack)' /\ stack.max <= stack'.max
        /\ stack'.limit = stack.limit
    BY <1>2, <2>1, <2>3
  <2>5. /\ Pool!Provide(PoolUsed') /\ PoolLimit' = PoolLimit /\ Ending' = Ending
        /\ Pool!Serving /\ PoolUsed' = PoolUsed \cup {index}
    BY <1>1, <2>1, <2>3, <2>4, Provides
  <2>6. Pool!Allocate(index)
    BY <1>3, <2>1, <2>2, <2>3, <2>5 DEF Pool!Allocate, Pool!Obtain, Pool!Returns
  <2>7. QED
    BY <2>2, <2>6 DEF Pool!Next, Index
<1>6. CASE AllocateRefused(index)
  <2>1. /\ stack' = r /\ ~CanAllocate(index)
        /\ call' = [op |-> "allocate", arg |-> index, ret |-> 1]
    BY <1>6 DEF AllocateRefused, Returns, HMESH_ERROR
  <2>2. index \in PoolUsed \/ index >= PoolLimit
    <3>1. CASE ~(index < r.max)
      BY <1>2, <1>4, <3>1, Words
    <3>2. CASE index < r.max /\ r.locFree[index] = NIL
      <4>1. index \in Index
        BY <1>2, <1>4, <3>2, StackFields, Words
      <4>2. index \in UsedSet(r)
        BY <1>2, <3>2, <4>1, UsedAndFree DEF WellFormed, Partitioned
      <4>3. QED
        BY <1>4, <4>2
    <3>3. CASE index < stack.max /\ attribute[index]
      <4>1. index \in Index
        BY <1>1, <3>3, StackFields, Words
      <4>2. index \in PoolHeld
        BY <3>3, <4>1 DEF PoolHeld
      <4>3. QED
        BY <1>1, <4>2, PoolOfStack
    <3>4. QED
      BY <2>1, <3>1, <3>2, <3>3 DEF CanAllocate
  <2>3. /\ stack' \in StackType /\ WellFormed(stack)' /\ stack.max <= stack'.max
        /\ stack'.limit = stack.limit
    BY <1>2, <2>1
  <2>4. /\ Pool!Provide(PoolUsed') /\ PoolLimit' = PoolLimit /\ Ending' = Ending
        /\ Pool!Serving /\ PoolUsed' = PoolUsed
    BY <1>1, <1>4, <2>1, <2>3, Provides
  <2>5. Pool!RefuseAllocate(index)
    BY <1>3, <2>1, <2>2, <2>4 DEF Pool!RefuseAllocate, Pool!Returns
  <2>6. QED
    BY <2>5 DEF Pool!Next, Word
<1>7. QED
  BY <1>5, <1>6

\* Giving an index back, which deallocate and destroy share.
LEMMA PoolGiveBack ==
  ASSUME IInv, phase \in {"live", "sweeping"}, phase' = phase, attribute' = attribute,
         NEW index \in Word, CanDeallocate(index), stack' = Release(stack, index)
  PROVE  Pool!GiveBack(index) /\ index \in Index
<1>1. /\ stack \in StackType /\ WellFormed(stack)
      /\ index < stack.max /\ stack.loc[index] # NIL /\ ~attribute[index]
  BY Sound DEF CanDeallocate, InUse
<1>2. index \in Index
  BY <1>1, StackFields, Words
<1>3. /\ index \in UsedSet(stack)
      /\ UsedSet(stack') = UsedSet(stack) \ {index}
      /\ FreeSet(stack') = FreeSet(stack) \cup {index}
      /\ stack'.limit = stack.limit
  BY <1>1, <1>2, ReleaseSets, ReleaseWellFormed
<1>4. /\ index \in PoolUsed \ PoolHeld
      /\ PoolUsed' = PoolUsed \ {index} /\ PoolFree' = PoolFree \cup {index}
      /\ UNCHANGED <<PoolLimit, PoolHeld, Ending>>
  BY <1>1, <1>3 DEF PoolLimit, PoolUsed, PoolFree, PoolHeld, Ending
<1>5. QED
  BY <1>2, <1>4 DEF Pool!GiveBack

LEMMA PoolDeallocate ==
  ASSUME IInv, NEW index \in Word, Deallocate(index) \/ DeallocateRefused(index)
  PROVE  Pool!Next
<1>1. /\ phase = "live" /\ phase' = phase /\ attribute' = attribute
      /\ PoolLimit > 0 /\ ~Ending
  BY PoolOfStack DEF Deallocate, DeallocateRefused, Ending
<1>2. CASE Deallocate(index)
  <2>1. Pool!GiveBack(index) /\ index \in Index
    BY <1>1, <1>2, PoolGiveBack DEF Deallocate
  <2>2. Pool!Deallocate(index)
    BY <1>1, <1>2, <2>1
       DEF Deallocate, Returns, HMESH_NO_ERROR, Pool!Deallocate, Pool!Serving, Pool!Returns
  <2>3. QED
    BY <2>1, <2>2 DEF Pool!Next, Index
<1>3. CASE DeallocateRefused(index)
  <2>1. stack' = stack /\ call' = [op |-> "deallocate", arg |-> index, ret |-> 1]
    BY <1>3 DEF DeallocateRefused, Returns, HMESH_ERROR
  <2>2. UNCHANGED <<PoolLimit, PoolUsed, PoolFree, PoolHeld, Ending>>
    BY <1>1, <2>1 DEF PoolLimit, PoolUsed, PoolFree, PoolHeld, Ending
  <2>3. index \notin PoolUsed \/ index \in PoolHeld
    <3>1. CASE ~InUse(stack, index)
      BY <1>1, <3>1 DEF PoolUsed, UsedSet
    <3>2. CASE InUse(stack, index)
      <4>1. attribute[index]
        BY <1>3, <3>2 DEF DeallocateRefused, CanDeallocate
      <4>2. index \in Index
        BY <1>1, <3>2, Sound, StackFields, Words DEF InUse
      <4>3. QED
        BY <4>1, <4>2 DEF PoolHeld
    <3>3. QED
      BY <3>1, <3>2
  <2>4. Pool!RefuseDeallocate(index)
    BY <1>1, <2>1, <2>2, <2>3 DEF Pool!RefuseDeallocate, Pool!Serving, Pool!Returns
  <2>5. QED
    BY <2>4 DEF Pool!Next, Word
<1>4. QED
  BY <1>2, <1>3

\* The walk of destroy reclaims one index or passes over one still held.
LEMMA PoolDestroyStep ==
  ASSUME IInv, DestroyStep
  PROVE  Pool!Next \/ UNCHANGED <<PoolLimit, PoolUsed, PoolFree, PoolHeld, Ending, call>>
<1> DEFINE index == stack.inUse[sweep.n - 1]
<1>1. /\ phase = "sweeping" /\ phase' = phase /\ attribute' = attribute /\ call' = call
      /\ Ending
      /\ \/ stack' = stack
         \/ CanDeallocate(index) /\ stack' = Release(stack, index)
  BY DEF DestroyStep, Ending
<1>2. index \in Word
  <2>1. /\ stack \in StackType /\ sweep.n \in Int /\ 0 < sweep.n /\ sweep.n <= stack.n
        /\ stack.n \in Int /\ stack.n <= IndexMax
    BY Sound, StackFields, Words DEF IInv, TypeOK, SweepKeepsHeld, DestroyStep
  <2>2. sweep.n - 1 \in Index
    BY <2>1, Words
  <2>3. QED
    BY <2>1, <2>2, StackFields
<1> HIDE DEF index
<1>3. CASE stack' = stack
  BY <1>1, <1>3 DEF PoolLimit, PoolUsed, PoolFree, PoolHeld, Ending
<1>4. CASE CanDeallocate(index) /\ stack' = Release(stack, index)
  <2>1. Pool!GiveBack(index) /\ index \in Index
    BY <1>1, <1>2, <1>4, PoolGiveBack
  <2>2. Pool!Reclaim(index)
    BY <1>1, <2>1 DEF Pool!Reclaim
  <2>3. QED
    BY <2>1, <2>2 DEF Pool!Next, Index
<1>5. QED
  BY <1>1, <1>3, <1>4

\* When the walk has ended, what is in use is exactly what is held.
LEMMA PoolDestroyReturns ==
  ASSUME IInv, DestroyReturns
  PROVE  Pool!Next
<1>1. /\ phase = "sweeping" /\ sweep.n = 0 /\ Ending
      /\ call' = [op |-> "destroy", arg |-> NIL, ret |-> sweep.status]
      /\ stack \in StackType /\ WellFormed(stack) /\ attribute \in [Index -> BOOLEAN]
      /\ \A p \in Index : p \in 0 .. stack.n - 1 => attribute[stack.inUse[p]]
      /\ (sweep.status = HMESH_ERROR) <=> (0 < stack.n)
      /\ sweep.status \in {HMESH_NO_ERROR, HMESH_ERROR}
      /\ stack.n \in Int /\ 0 <= stack.n /\ stack.n <= IndexMax
  BY Sound, StackFields, Words DEF DestroyReturns, Ending, Returns, IInv, TypeOK, SweepKeepsHeld
<1>2. PoolUsed = {i \in Index : stack.loc[i] # NIL} /\ PoolHeld \subseteq PoolUsed
  BY <1>1, PoolOfStack
<1>3. PoolUsed = PoolHeld
  <2>1. ASSUME NEW i \in Index, stack.loc[i] # NIL PROVE attribute[i]
    <3>1. stack.loc[i] \in Word /\ stack.loc[i] < stack.n /\ stack.inUse[stack.loc[i]] = i
      BY <1>1, <2>1, StackFields DEF WellFormed, Mutual
    <3>2. stack.loc[i] \in Index /\ stack.loc[i] \in 0 .. stack.n - 1
      BY <1>1, <3>1, Words
    <3>3. QED
      BY <1>1, <3>1, <3>2
  <2>2. QED
    BY <1>2, <2>1 DEF PoolHeld
<1>4. CASE sweep.status = HMESH_ERROR
  <2>1. phase' = "live" /\ stack' = stack /\ attribute' = attribute
    BY <1>4 DEF DestroyReturns, HMESH_ERROR, HMESH_NO_ERROR
  <2>2. UNCHANGED <<PoolLimit, PoolUsed, PoolFree, PoolHeld>> /\ ~Ending'
    BY <1>1, <2>1 DEF PoolLimit, PoolUsed, PoolFree, PoolHeld, Ending
  <2>3. PoolHeld # {}
    <3>1. 0 \in Index /\ 0 \in 0 .. stack.n - 1
      BY <1>1, <1>4, Words
    <3>2. stack.inUse[0] \in Index
      BY <1>1, <1>4, <3>1, StackFields, Words DEF WellFormed, Mutual
    <3>3. QED
      BY <1>1, <3>1, <3>2 DEF PoolHeld
  <2>4. Pool!NotDestroyed
    BY <1>1, <1>3, <1>4, <2>2, <2>3
       DEF Pool!NotDestroyed, Pool!Returns, Pool!NIL, NIL, HMESH_ERROR
  <2>5. QED
    BY <2>4 DEF Pool!Next
<1>5. CASE sweep.status = HMESH_NO_ERROR
  <2>1. phase' = "none" /\ stack' = NoStack /\ attribute' = NoneHeld
    BY <1>5 DEF DestroyReturns, HMESH_ERROR, HMESH_NO_ERROR
  <2>2. PoolUsed = {}
    <3>1. \A i \in Index : stack.loc[i] = NIL
      BY <1>1, <1>5, StackFields, Words DEF WellFormed, Mutual, HMESH_ERROR, HMESH_NO_ERROR
    <3>2. QED
      BY <1>2, <3>1
  <2>3. /\ PoolLimit' = 0 /\ PoolUsed' = {} /\ PoolFree' = {} /\ PoolHeld' = {} /\ ~Ending'
    BY <2>1 DEF PoolLimit, PoolUsed, PoolFree, PoolHeld, Ending, NoneHeld
  <2>4. Pool!Destroyed
    BY <1>1, <1>3, <1>5, <2>2, <2>3
       DEF Pool!Destroyed, Pool!Returns, Pool!NIL, NIL, HMESH_NO_ERROR
  <2>5. QED
    BY <2>4 DEF Pool!Next
<1>6. QED
  BY <1>1, <1>4, <1>5

LEMMA PoolAttribute ==
  ASSUME IInv, NEW index \in Index, SetAttribute(index) \/ FreeAttribute(index)
  PROVE  Pool!Next
<1>1. /\ phase = "live" /\ phase' = phase /\ stack' = stack /\ call' = call
      /\ attribute \in [Index -> BOOLEAN]
  BY Sound DEF SetAttribute, FreeAttribute
<1>2. PoolLimit > 0 /\ ~Ending /\ UNCHANGED <<PoolLimit, PoolUsed, PoolFree, Ending>>
  BY <1>1, PoolOfStack DEF PoolLimit, PoolUsed, PoolFree, Ending
<1>3. CASE SetAttribute(index)
  <2>1. index \in PoolUsed \ PoolHeld /\ PoolHeld' = PoolHeld \cup {index}
    BY <1>1, <1>3 DEF SetAttribute, PoolUsed, PoolHeld, UsedSet
  <2>2. Pool!Hold(index)
    BY <1>1, <1>2, <2>1 DEF Pool!Hold, Pool!Serving
  <2>3. QED
    BY <2>2 DEF Pool!Next, Index
<1>4. CASE FreeAttribute(index)
  <2>1. index \in PoolHeld /\ PoolHeld' = PoolHeld \ {index}
    BY <1>1, <1>4 DEF FreeAttribute, PoolHeld
  <2>2. Pool!LetGo(index)
    BY <1>1, <1>2, <2>1 DEF Pool!LetGo, Pool!Serving
  <2>3. QED
    BY <2>2 DEF Pool!Next, Index
<1>5. QED
  BY <1>3, <1>4

\* Every step but a fault is a step of the pool, or none.
LEMMA PoolStep ==
  ASSUME IInv, phase' # "faulted", [Next]_vars
  PROVE  Pool!Next \/ UNCHANGED <<PoolLimit, PoolUsed, PoolFree, PoolHeld, Ending, call>>
<1>1. CASE \E limit \in Limits, increment \in Increments : Create(limit, increment)
  BY <1>1, PoolCreate
<1>2. CASE \E isPop \in BOOLEAN : FreeHead(isPop) \/ FreeHeadOutOfIndex(isPop)
  BY <1>2, PoolFreeHead, PoolOutOfIndex
<1>3. CASE \E index \in Word : Allocate(index) \/ AllocateRefused(index)
  BY <1>3, PoolAllocate
<1>4. CASE \E index \in Word : Deallocate(index) \/ DeallocateRefused(index)
  BY <1>4, PoolDeallocate
<1>5. CASE Destroy
  <2>1. /\ PoolLimit > 0 /\ ~Ending /\ Ending'
        /\ UNCHANGED <<PoolLimit, PoolUsed, PoolFree, PoolHeld, call>>
    BY <1>5, PoolOfStack DEF Destroy, PoolLimit, PoolUsed, PoolFree, PoolHeld, Ending
  <2>2. Pool!Destroy
    BY <2>1 DEF Pool!Destroy, Pool!Serving
  <2>3. QED
    BY <2>2 DEF Pool!Next
<1>6. CASE DestroyStep
  BY <1>6, PoolDestroyStep
<1>7. CASE DestroyReturns
  BY <1>7, PoolDestroyReturns
<1>8. CASE \E index \in Index : SetAttribute(index) \/ FreeAttribute(index)
  BY <1>8, PoolAttribute
<1>9. CASE FreeHeadFaults \/ \E index \in Word : AllocateFaults(index)
  BY <1>9 DEF FreeHeadFaults, AllocateFaults
<1>10. CASE UNCHANGED vars \/ \E index \in Word : DeallocateCrashes(index)
  BY <1>10 DEF vars, DeallocateCrashes, PoolLimit, PoolUsed, PoolFree, PoolHeld, Ending
<1>11. QED
  BY <1>1, <1>2, <1>3, <1>4, <1>5, <1>6, <1>7, <1>8, <1>9, <1>10 DEF Next

LEMMA PoolInit == Init => Pool!Init
BY DEF Init, Pool!Init, Pool!NIL, NIL, PoolLimit, PoolUsed, PoolFree, PoolHeld, Ending, NoneHeld

\* What each call returns and refuses is what the pool of indices allows, until a sum
\* wraps, whatever limits and increments.
THEOREM Implementation == Spec => ImplementsPool
<1>1. IInv /\ [Next]_vars
        => [Pool!Next \/ phase' = "faulted"]_<<PoolLimit, PoolUsed, PoolFree, PoolHeld, Ending, call>>
  BY PoolStep
<1>2. QED
  BY <1>1, PoolInit, Invariance, PTL DEF Spec, ImplementsPool, Pool!vars

\* So a stack whose sums stay within 16 bits is a pool of indices for ever.
THEOREM ImplementationForEver ==
  ASSUME NoWrap
  PROVE  Spec => Pool!Spec
<1>1. IInv /\ NeverFaults' /\ [Next]_vars
        => [Pool!Next]_<<PoolLimit, PoolUsed, PoolFree, PoolHeld, Ending, call>>
  BY PoolStep DEF NeverFaults
<1>2. QED
  BY <1>1, PoolInit, Invariance, NoFault, PTL DEF Spec, Pool!Spec, Pool!vars

(***************************************************************************)
(* The loops of the growth.                                                *)
(***************************************************************************)
\* A set of numbers has a least one.
LEMMA Least ==
  ASSUME NEW S, S \subseteq Nat, S # {}
  PROVE  \E p \in S : \A q \in S : p <= q
<1> DEFINE R == {ss \in Nat \X Nat : ss[1] < ss[2]}
<1>1. IsWellFoundedOn(R, Nat)
  BY NatLessThanWellFounded DEF OpToRel
<1>2. PICK p \in S : \A q \in S : ~(<<q, p>> \in R)
  <2> HIDE DEF R
  <2>1. QED
    BY <1>1, WFMin
<1>3. \A q \in S : p \in Nat /\ q \in Nat /\ ~(q < p)
  BY <1>2
<1>4. \A q \in S : p <= q
  BY <1>3
<1>5. QED
  BY <1>4

\* Growing by nothing, and growing twice.
LEMMA ExtendNothing ==
  ASSUME NEW s \in StackType, WellFormed(s)
  PROVE  Extend(s, s.max) = s
<1>0. /\ s.n \in Int /\ s.nfree \in Int /\ s.max \in Int
      /\ s.freeList \in [Index -> Word] /\ s.loc \in [Index -> Word]
      /\ s.locFree \in [Index -> Word]
  BY StackFields, Words
<1>1. /\ [p \in Index |-> IF s.nfree <= p /\ p < s.nfree + (s.max - s.max)
                            THEN s.max + (p - s.nfree) ELSE s.freeList[p]] = s.freeList
      /\ [i \in Index |-> IF s.max <= i /\ i < s.max
                            THEN s.nfree + (i - s.max) ELSE s.locFree[i]] = s.locFree
      /\ [i \in Index |-> IF s.max <= i /\ i < s.max THEN NIL ELSE s.loc[i]] = s.loc
      /\ s.nfree + (s.max - s.max) = s.nfree
  BY <1>0, Words
<1>2. Extend(s, s.max) = [s EXCEPT !.max = s.max, !.nfree = s.nfree, !.freeList = s.freeList,
                                   !.locFree = s.locFree, !.loc = s.loc]
  BY <1>1 DEF Extend
<1>3. QED
  BY <1>2 DEF StackType

\* A field overwritten twice has the second value.
LEMMA Regrown ==
  ASSUME NEW s \in StackType, NEW a1, NEW b1, NEW c1, NEW d1, NEW e1,
         NEW a2, NEW b2, NEW c2, NEW d2, NEW e2
  PROVE  [[s EXCEPT !.max = a1, !.nfree = b1, !.freeList = c1, !.locFree = d1, !.loc = e1]
            EXCEPT !.max = a2, !.nfree = b2, !.freeList = c2, !.locFree = d2, !.loc = e2]
           = [s EXCEPT !.max = a2, !.nfree = b2, !.freeList = c2, !.locFree = d2, !.loc = e2]
BY DEF StackType

\* Growing twice is growing once.
LEMMA ExtendTwice ==
  ASSUME NEW s \in StackType, WellFormed(s),
         NEW m \in Int, s.max <= m, NEW m2 \in Int, m <= m2, m2 <= s.limit
  PROVE  Extend(Extend(s, m), m2) = Extend(s, m2)
<1> DEFINE t == Extend(s, m)
           list(a, x, n) == [p \in Index |-> IF a.nfree <= p /\ p < a.nfree + (n - x)
                                             THEN x + (p - a.nfree) ELSE a.freeList[p]]
           place(a, x, n) == [i \in Index |-> IF x <= i /\ i < n
                                              THEN a.nfree + (i - x) ELSE a.locFree[i]]
           used(a, x, n) == [i \in Index |-> IF x <= i /\ i < n THEN NIL ELSE a.loc[i]]
<1>0. /\ s.n \in Int /\ s.nfree \in Int /\ s.max \in Int
      /\ s.freeList \in [Index -> Word] /\ s.loc \in [Index -> Word]
      /\ s.locFree \in [Index -> Word] /\ s.limit \in Int
  BY StackFields, Words
<1>1. ASSUME NEW n \in Int
      PROVE  Extend(s, n) = [s EXCEPT !.max = n, !.nfree = s.nfree + (n - s.max),
                              !.freeList = list(s, s.max, n), !.locFree = place(s, s.max, n),
                              !.loc = used(s, s.max, n)]
  BY DEF Extend
<1>2. /\ t.max = m /\ t.nfree = s.nfree + (m - s.max)
      /\ t.freeList = list(s, s.max, m) /\ t.locFree = place(s, s.max, m)
      /\ t.loc = used(s, s.max, m)
  BY <1>1 DEF StackType
<1>3. Extend(t, m2) = [t EXCEPT !.max = m2, !.nfree = t.nfree + (m2 - m),
                              !.freeList = list(t, m, m2), !.locFree = place(t, m, m2),
                              !.loc = used(t, m, m2)]
  BY <1>2 DEF Extend
<1>4. list(t, m, m2) = list(s, s.max, m2)
  <2> HIDE DEF t
  <2>1. QED
    BY <1>0, <1>2, Words
<1>5. place(t, m, m2) = place(s, s.max, m2)
  <2> HIDE DEF t
  <2>1. QED
    BY <1>0, <1>2, Words
<1>6. used(t, m, m2) = used(s, s.max, m2)
  <2> HIDE DEF t
  <2>1. QED
    BY <1>0, <1>2, Words
<1>7. t.nfree + (m2 - m) = s.nfree + (m2 - s.max)
  BY <1>0, <1>2
<1>8. Extend(t, m2) = [t EXCEPT !.max = m2, !.nfree = s.nfree + (m2 - s.max),
                              !.freeList = list(s, s.max, m2), !.locFree = place(s, s.max, m2),
                              !.loc = used(s, s.max, m2)]
  BY <1>3, <1>4, <1>5, <1>6, <1>7
<1>9. t = [s EXCEPT !.max = m, !.nfree = s.nfree + (m - s.max),
                              !.freeList = list(s, s.max, m), !.locFree = place(s, s.max, m),
                              !.loc = used(s, s.max, m)]
  BY <1>1
<1> HIDE DEF t
<1>10. Extend(t, m2) = Extend(s, m2)
  <2>1. Extend(s, m2) = [s EXCEPT !.max = m2, !.nfree = s.nfree + (m2 - s.max),
                              !.freeList = list(s, s.max, m2), !.locFree = place(s, s.max, m2),
                              !.loc = used(s, s.max, m2)]
    BY <1>1
  <2> HIDE DEF list, place, used
  <2>2. QED
    BY <1>8, <1>9, <2>1, Regrown
<1>11. QED
  BY <1>10 DEF t

\* One iteration of the loop of index_stack_expand ().
LEMMA OneProvided ==
  ASSUME NEW s \in StackType, WellFormed(s),
         NEW i \in Int, s.max < i, i <= s.limit
  PROVE  Provide([Extend(s, i - 1) EXCEPT !.max = s.max], i - 1)
           = [Extend(s, i) EXCEPT !.max = s.max]
<1> DEFINE t == [Extend(s, i - 1) EXCEPT !.max = s.max]
           list(n) == [p \in Index |-> IF s.nfree <= p /\ p < s.nfree + (n - s.max)
                                             THEN s.max + (p - s.nfree) ELSE s.freeList[p]]
           place(n) == [j \in Index |-> IF s.max <= j /\ j < n
                                              THEN s.nfree + (j - s.max) ELSE s.locFree[j]]
           used(n) == [j \in Index |-> IF s.max <= j /\ j < n THEN NIL ELSE s.loc[j]]
           at(n) == [s EXCEPT !.nfree = s.nfree + (n - s.max), !.freeList = list(n),
                              !.locFree = place(n), !.loc = used(n)]
<1>0. /\ s.n \in Int /\ s.nfree \in Int /\ s.max \in Int /\ 0 <= s.max /\ 0 <= s.nfree /\ 0 <= s.n
      /\ s.freeList \in [Index -> Word] /\ s.loc \in [Index -> Word]
      /\ s.locFree \in [Index -> Word] /\ s.limit \in Int /\ s.limit <= IndexMax
      /\ s.n + s.nfree = s.max
  BY StackFields, Words DEF WellFormed, Partitioned
<1>1. ASSUME NEW n \in Int
      PROVE  [Extend(s, n) EXCEPT !.max = s.max] = at(n)
  BY DEF Extend, StackType
<1>2. t = at(i - 1)
  <2> HIDE DEF at
  <2>1. i - 1 \in Int
    OBVIOUS
  <2>2. QED
    BY <1>1, <2>1
<1>3. /\ t.nfree = s.nfree + (i - 1 - s.max)
      /\ t.freeList = list(i - 1) /\ t.locFree = place(i - 1) /\ t.loc = used(i - 1)
  BY <1>2 DEF StackType
<1>4. /\ [t.freeList EXCEPT ![t.nfree] = i - 1] = list(i)
      /\ t.nfree + 1 = s.nfree + (i - s.max)
  <2> HIDE DEF t
  <2> DEFINE e == s.nfree + (i - 1 - s.max)
  <2>0. e \in Index /\ s.max + (e - s.nfree) = i - 1 /\ s.nfree <= e
    BY <1>0, Words
  <2>1. \A p \in Index : (s.nfree <= p /\ p < e) \/ p = e
                            <=> s.nfree <= p /\ p < s.nfree + (i - s.max)
    BY <1>0, Words
  <2>2. [t.freeList EXCEPT ![t.nfree] = i - 1]
          = [p \in Index |-> IF p = e THEN i - 1 ELSE list(i - 1)[p]]
    BY <1>3
  <2>3. ASSUME NEW p \in Index
        PROVE  (IF p = e THEN i - 1 ELSE list(i - 1)[p]) = list(i)[p]
    <3>1. list(i)[p] = IF s.nfree <= p /\ p < s.nfree + (i - s.max)
                       THEN s.max + (p - s.nfree) ELSE s.freeList[p]
      OBVIOUS
    <3>2. list(i - 1)[p] = IF s.nfree <= p /\ p < e
                           THEN s.max + (p - s.nfree) ELSE s.freeList[p]
      OBVIOUS
    <3> HIDE DEF e, list
    <3>3. QED
      BY <2>0, <2>1, <3>1, <3>2
  <2> HIDE DEF list
  <2>4. list(i) = [p \in Index |-> list(i)[p]]
    BY DEF list
  <2>5. QED
    BY <1>0, <1>3, <2>2, <2>3, <2>4
<1>5. [t.locFree EXCEPT ![i - 1] = t.nfree] = place(i)
  <2> HIDE DEF t
  <2>0. \A j \in Index : (s.max <= j /\ j < i - 1) \/ j = i - 1 <=> s.max <= j /\ j < i
    BY <1>0, Words
  <2>1. [t.locFree EXCEPT ![i - 1] = t.nfree]
          = [j \in Index |-> IF j = i - 1 THEN t.nfree ELSE place(i - 1)[j]]
    BY <1>3
  <2>2. ASSUME NEW j \in Index
        PROVE  (IF j = i - 1 THEN t.nfree ELSE place(i - 1)[j]) = place(i)[j]
    BY <1>0, <1>3, <2>0, Words
  <2> HIDE DEF place
  <2>3. place(i) = [j \in Index |-> place(i)[j]]
    BY DEF place
  <2>4. QED
    BY <2>1, <2>2, <2>3
<1>6. [t.loc EXCEPT ![i - 1] = NIL] = used(i)
  <2> HIDE DEF t
  <2>0. \A j \in Index : (s.max <= j /\ j < i - 1) \/ j = i - 1 <=> s.max <= j /\ j < i
    BY <1>0, Words
  <2>1. [t.loc EXCEPT ![i - 1] = NIL]
          = [j \in Index |-> IF j = i - 1 THEN NIL ELSE used(i - 1)[j]]
    BY <1>3
  <2>2. ASSUME NEW j \in Index
        PROVE  (IF j = i - 1 THEN NIL ELSE used(i - 1)[j]) = used(i)[j]
    BY <1>0, <1>3, <2>0, Words
  <2> HIDE DEF used
  <2>3. used(i) = [j \in Index |-> used(i)[j]]
    BY DEF used
  <2>4. QED
    BY <2>1, <2>2, <2>3
<1>7. Provide(t, i - 1) = [t EXCEPT !.freeList = list(i), !.locFree = place(i),
                                    !.nfree = s.nfree + (i - s.max), !.loc = used(i)]
  <2>1. Provide(t, i - 1) = [t EXCEPT !.freeList = [t.freeList EXCEPT ![t.nfree] = i - 1],
                                      !.locFree = [t.locFree EXCEPT ![i - 1] = t.nfree],
                                      !.nfree = t.nfree + 1,
                                      !.loc = [t.loc EXCEPT ![i - 1] = NIL]]
    <3> HIDE DEF t
    <3>1. QED
      BY DEF Provide
  <2>2. QED
    BY <1>4, <1>5, <1>6, <2>1
<1>8. Provide(t, i - 1) = at(i)
  <2> HIDE DEF list, place, used, t
  <2>1. QED
    BY <1>2, <1>7 DEF StackType
<1>9. QED
  BY <1>1, <1>8

\* The loop of index_stack_expand () is one growth.
LEMMA ProvideFromIs ==
  ASSUME NEW s \in StackType, WellFormed(s),
         NEW max \in Int, s.max <= max, max <= s.limit
  PROVE  ProvideFrom(s, max)[max] = [Extend(s, max) EXCEPT !.max = s.max]
<1> DEFINE D == s.max .. max
           C(i) == [Extend(s, i) EXCEPT !.max = s.max]
           Body(f) == [i \in D |-> IF i = s.max THEN s ELSE Provide(f[i - 1], i - 1)]
           c == [i \in D |-> C(i)]
           at == ProvideFrom(s, max)
<1>0. s.max \in Int /\ 0 <= s.max /\ s.limit \in Int
  BY StackFields, Words
<1>1. C(s.max) = s
  BY ExtendNothing DEF StackType
<1>2. ASSUME NEW i \in D, i # s.max
      PROVE  i - 1 \in D /\ C(i) = Provide(C(i - 1), i - 1)
  <2>1. i \in Int /\ s.max < i /\ i <= s.limit /\ i - 1 \in D
    BY <1>0, <1>2
  <2>2. QED
    BY <2>1, OneProvided
<1>3. c = Body(c)
  <2> HIDE DEF C, D
  <2>1. ASSUME NEW i \in D
        PROVE  c[i] = IF i = s.max THEN s ELSE Provide(c[i - 1], i - 1)
    BY <1>1, <1>2
  <2>2. QED
    BY <2>1
<1>4. at = Body(at)
  <2>1. at = CHOOSE f : f = Body(f)
    BY DEF ProvideFrom
  <2> HIDE DEF at, Body, c
  <2>2. QED
    BY <1>3, <2>1
<1> HIDE DEF at
<1>5. ASSUME NEW i \in D
      PROVE  at[i] = IF i = s.max THEN s ELSE Provide(at[i - 1], i - 1)
  BY <1>4
<1> HIDE DEF C
<1> DEFINE Bad == {i \in D : at[i] # C(i)}
<1>6. ASSUME Bad # {}
      PROVE  FALSE
  <2>1. Bad \subseteq Nat
    BY <1>0
  <2>2. PICK p \in Bad : \A q \in Bad : p <= q
    <3> HIDE DEF Bad
    <3>1. QED
      BY <1>6, <2>1, Least
  <2>3. p # s.max
    BY <1>1, <1>5
  <2>4. p - 1 \in D /\ p - 1 \notin Bad
    BY <1>0, <1>2, <2>2, <2>3
  <2>5. QED
    BY <1>2, <1>5, <2>3, <2>4
<1>7. max \in D
  BY <1>0
<1>8. at[max] = C(max)
  BY <1>6, <1>7
<1>9. QED
  BY <1>8 DEF C, at

\* One iteration of the loop of index_stack_allocate (): a whole increment, or what
\* is left below limit.
LEMMA ExpandLoopIs ==
  ASSUME NEW s \in StackType, WellFormed(s), ~Full(s), s.max + s.increment <= IndexMax
  PROVE  /\ ~SumWraps(s)
         /\ ExpandLoop(s) = Extend(s, Lesser(s.max + s.increment, s.limit))
         /\ s.max < Lesser(s.max + s.increment, s.limit)
         /\ Lesser(s.max + s.increment, s.limit) <= s.limit
<1>0. /\ s.increment \in Int /\ 1 <= s.increment /\ s.limit \in Int /\ s.max \in Int
      /\ 0 <= s.max /\ s.max < s.limit /\ IndexMax \in Int
  BY StackFields, Words DEF WellFormed, Partitioned, Full
<1> DEFINE sum == s.max + s.increment
           m == Lesser(sum, s.limit)
<1>1. sum % (IndexMax + 1) = sum
  BY <1>0
<1>2. m \in Int /\ s.max < m /\ m <= s.limit
  BY <1>0 DEF Lesser
<1>3. ~SumWraps(s)
  BY <1>0, <1>1 DEF SumWraps
<1>4. ExpandLoop(s) = [ProvideFrom(s, m)[m] EXCEPT !.max = m]
  BY <1>1 DEF ExpandLoop
<1> HIDE DEF m
<1>5. ProvideFrom(s, m)[m] = [Extend(s, m) EXCEPT !.max = s.max]
  BY <1>0, <1>2, ProvideFromIs
<1>6. Extend(s, m) \in StackType /\ Extend(s, m).max = m
  BY <1>0, <1>2, ExtendWellFormed
<1>7. [[Extend(s, m) EXCEPT !.max = s.max] EXCEPT !.max = m] = Extend(s, m)
  BY <1>6 DEF StackType
<1>8. ExpandLoop(s) = Extend(s, m)
  BY <1>4, <1>5, <1>7
<1>9. QED
  BY <1>2, <1>3, <1>8 DEF m

\* The max that k whole increments reach, and what the closed form says of a loop that
\* is there: where it stops next, or that its next sum wraps.
LEMMA NextStride ==
  ASSUME NEW s \in StackType, WellFormed(s), NEW index \in Word, NEW k \in Nat,
         NEW m \in Int, m = s.max + k * s.increment, m <= index, m < s.limit
  PROVE  /\ m + s.increment = s.max + (k + 1) * s.increment
         /\ m + s.increment > index \/ m + s.increment >= s.limit =>
              /\ ReachMax(s, index) = Lesser(m + s.increment, s.limit)
              /\ LoopWraps(s, index) <=> m + s.increment > IndexMax
<1>0. /\ s.increment \in Int /\ 1 <= s.increment /\ s.limit \in Int /\ s.max \in Int
      /\ 0 <= s.max /\ s.limit <= IndexMax /\ IndexMax \in Int
      /\ index \in Int /\ index <= IndexMax
  BY StackFields, Words DEF WellFormed, Partitioned
<1> DEFINE inc == s.increment
           p == k * inc
<1>1. p \in Int /\ 0 <= p /\ (k + 1) * inc = p + inc
  <2>1. inc \in Nat
    BY <1>0
  <2> HIDE DEF inc
  <2>2. QED
    BY <2>1
<1>2. index >= s.max /\ s.max < s.limit
  BY <1>0, <1>1
<1> DEFINE d == index - s.max
           q == d \div inc
           w == q * inc
<1>3. d \in Nat /\ inc \in Nat \ {0} /\ p <= d
  BY <1>0, <1>1, <1>2
<1>3a. q \in Int /\ w \in Int /\ w <= d /\ d < w + inc /\ (q + 1) * inc = w + inc
  <2> HIDE DEF d, inc
  <2>1. QED
    BY <1>3
<1>4. ReachMax(s, index) = Lesser(s.max + w + inc, s.limit)
  BY <1>0, <1>2, <1>3a DEF ReachMax
<1>4a. \A x, y \in Int : x <= y => x * inc <= y * inc /\ x * inc \in Int /\ y * inc \in Int
  <2> HIDE DEF inc
  <2>1. QED
    BY <1>3
<1>5. k <= q
  <2>1. ASSUME q + 1 <= k PROVE FALSE
    <3>1. (q + 1) * inc <= p
      <4> HIDE DEF q, inc
      <4>1. QED
        BY <1>3a, <1>4a, <2>1
    <3> HIDE DEF p, q, d, inc, w
    <3>2. QED
      BY <1>1, <1>3, <1>3a, <3>1
  <2> HIDE DEF q
  <2>2. QED
    BY <1>3a, <2>1
<1>6. ASSUME m + inc > index \/ m + inc >= s.limit
      PROVE  ReachMax(s, index) = Lesser(m + inc, s.limit)
  <2>1. CASE m + inc > index
    <3>1. ASSUME k + 1 <= q PROVE FALSE
      <4>1. d < p + inc
        BY <1>0, <1>1, <2>1
      <4>2. (k + 1) * inc <= w
        <5> HIDE DEF q, inc
        <5>1. QED
          BY <1>3a, <1>4a, <3>1
      <4> HIDE DEF p, q, d, inc, w
      <4>3. QED
        BY <1>1, <1>3, <1>3a, <4>1, <4>2
    <3>2. q = k
      <4> HIDE DEF q
      <4>1. QED
        BY <1>3a, <1>5, <3>1
    <3>3. w = p
      BY <3>2
    <3> HIDE DEF p, q, d, inc, w
    <3>4. s.max + w + inc = m + inc
      BY <1>0, <1>1, <3>3 DEF p, inc
    <3>5. QED
      BY <1>4, <3>4
  <2>2. CASE m + inc >= s.limit
    <3>1. p <= w
      <4> HIDE DEF q, inc
      <4>1. QED
        BY <1>3a, <1>4a, <1>5
    <3>2. s.max + w + inc >= s.limit /\ s.max + w + inc \in Int
      <4> HIDE DEF w
      <4>1. QED
        BY <1>0, <1>1, <1>3a, <2>2, <3>1
    <3> HIDE DEF w
    <3>3. QED
      BY <1>0, <1>4, <2>2, <3>2 DEF Lesser
  <2>3. QED
    BY <1>6, <2>1, <2>2
<1>7. ASSUME m + inc >= s.limit
      PROVE  LastSum(s) = m + inc
  <2> DEFINE a == s.limit - s.max + inc - 1
             r == a \div inc
  <2>1. a \in Nat /\ inc \in Nat \ {0} /\ p + inc <= a /\ a < p + inc + inc
    BY <1>0, <1>1, <1>2, <1>7
  <2>2. r \in Int /\ r * inc <= a /\ a < r * inc + inc /\ r * inc \in Int /\ (r + 1) * inc = r * inc + inc
    <3> HIDE DEF a, inc
    <3>1. QED
      BY <2>1
  <2>3. LastSum(s) = s.max + r * inc
    BY DEF LastSum
  <2>4. ASSUME r + 1 <= k + 1 PROVE FALSE
    <3> HIDE DEF a, r, p, inc
    <3>1. (r + 1) * inc <= (k + 1) * inc
      BY <2>1, <2>2, <2>4
    <3>2. QED
      BY <1>1, <2>1, <2>2, <3>1
  <2>5. ASSUME k + 2 <= r PROVE FALSE
    <3>1. (k + 2) * inc = p + inc + inc
      <4> HIDE DEF inc
      <4>1. QED
        BY <2>1
    <3> HIDE DEF a, r, p, inc
    <3>2. (k + 2) * inc <= r * inc
      BY <2>1, <2>2, <2>5
    <3>3. QED
      BY <1>1, <2>1, <2>2, <3>1, <3>2
  <2> HIDE DEF r
  <2>6. r = k + 1
    BY <2>2, <2>4, <2>5
  <2>7. QED
    BY <1>0, <1>1, <2>3, <2>6
<1>8. ASSUME m + inc > index, m + inc < s.limit
      PROVE  ~LoopWraps(s, index) /\ m + inc <= IndexMax
  BY <1>0, <1>6, <1>8 DEF LoopWraps, Lesser
<1>9. ASSUME m + inc >= s.limit
      PROVE  LoopWraps(s, index) <=> m + inc > IndexMax
  BY <1>0, <1>2, <1>6, <1>7, <1>9 DEF LoopWraps, Lesser, Full
<1>10. m + inc = s.max + (k + 1) * inc /\ m + inc \in Int
  <2> HIDE DEF p
  <2>1. QED
    BY <1>0, <1>1 DEF p
<1>11. m + inc > index \/ m + inc >= s.limit =>
              /\ ReachMax(s, index) = Lesser(m + inc, s.limit)
              /\ LoopWraps(s, index) <=> m + inc > IndexMax
  BY <1>0, <1>6, <1>8, <1>9, <1>10
<1>12. QED
  BY <1>10, <1>11

\* What a stack t is after k iterations of the loop that grows s towards index: k whole
\* increments larger with the loop still running, or what the closed form says with the
\* loop ended, or about to wrap as the closed form foresees.
Grown(s, index, t, k) ==
  \/ LET m == s.max + k * s.increment IN t = Extend(s, m) /\ m <= index /\ m < s.limit
  \/ ~GoesOn(t, index) /\ t = ExpandUntil(s, index) /\ ~LoopWraps(s, index)
  \/ GoesOn(t, index) /\ SumWraps(t) /\ LoopWraps(s, index)

ReachBody(t, index) == IF GoesOn(t, index) /\ ~SumWraps(t) THEN ExpandLoop(t) ELSE t

\* The loop starts so,
LEMMA GrownFirst ==
  ASSUME NEW s \in StackType, WellFormed(s), NEW index \in Word
  PROVE  Grown(s, index, s, 0)
<1>0. /\ s.increment \in Int /\ 1 <= s.increment /\ s.limit \in Int /\ s.max \in Int
      /\ 0 <= s.max /\ s.max <= s.limit /\ index \in Int
  BY StackFields, Words DEF WellFormed, Partitioned
<1>1. Extend(s, s.max) = s
  BY ExtendNothing
<1>2. CASE GoesOn(s, index)
  <2>1. s.max + 0 * s.increment = s.max /\ s.max <= index /\ s.max < s.limit
    BY <1>0, <1>2 DEF GoesOn, Full
  <2>2. QED
    BY <1>1, <2>1 DEF Grown
<1>3. CASE index < s.max
  BY <1>0, <1>3 DEF Grown, GoesOn, ExpandUntil, LoopWraps
<1>4. CASE Full(s) /\ index >= s.max
  <2>1. ReachMax(s, index) \in Int /\ s.max <= ReachMax(s, index) /\ ReachMax(s, index) <= s.limit
    BY ReachMaxBounds
  <2>2. ReachMax(s, index) = s.max
    BY <1>0, <1>4, <2>1 DEF Full
  <2>3. ExpandUntil(s, index) = s
    BY <1>0, <1>1, <1>4, <2>2 DEF ExpandUntil
  <2>4. QED
    BY <1>4, <2>3 DEF Grown, GoesOn, LoopWraps
<1>5. QED
  BY <1>0, <1>2, <1>3, <1>4 DEF GoesOn

\* and every iteration keeps it so.
LEMMA GrownNext ==
  ASSUME NEW s \in StackType, WellFormed(s), NEW index \in Word, NEW k \in Nat, NEW t,
         Grown(s, index, t, k)
  PROVE  Grown(s, index, ReachBody(t, index), k + 1)
<1>0. /\ s.increment \in Int /\ 1 <= s.increment /\ s.increment <= IndexMax
      /\ s.limit \in Int /\ s.max \in Int
      /\ 0 <= s.max /\ s.max <= s.limit /\ index \in Int /\ s.limit <= IndexMax /\ IndexMax \in Int
  BY StackFields, Words DEF WellFormed, Partitioned
<1>1. CASE ~GoesOn(t, index) /\ t = ExpandUntil(s, index) /\ ~LoopWraps(s, index)
  BY <1>1 DEF Grown, ReachBody
<1>2. CASE GoesOn(t, index) /\ SumWraps(t) /\ LoopWraps(s, index)
  BY <1>2 DEF Grown, ReachBody
<1> DEFINE m == s.max + k * s.increment
           inc == s.increment
           m2 == Lesser(m + inc, s.limit)
<1>3. CASE t = Extend(s, m) /\ m <= index /\ m < s.limit
  <2>0. m \in Int /\ s.max <= m
    <3>1. inc \in Nat
      BY <1>0
    <3>2. k * inc \in Int /\ 0 <= k * inc
      <4> HIDE DEF inc
      <4>1. QED
        BY <3>1
    <3>3. QED
      BY <1>0, <3>2
  <2>1. /\ m + inc = s.max + (k + 1) * inc
        /\ m + inc > index \/ m + inc >= s.limit =>
              /\ ReachMax(s, index) = m2
              /\ LoopWraps(s, index) <=> m + inc > IndexMax
    BY <1>3, <2>0, NextStride
  <2>2. /\ t \in StackType /\ WellFormed(t) /\ t.max = m /\ t.limit = s.limit
        /\ t.increment = inc
    <3> HIDE DEF m
    <3>1. QED
      BY <1>0, <1>3, <2>0, ExtendWellFormed
  <2> HIDE DEF m
  <2>3. GoesOn(t, index) /\ ~Full(t)
    BY <1>0, <1>3, <2>0, <2>2 DEF GoesOn, Full
  <2>4. CASE m + inc <= IndexMax
    <3>1. ~SumWraps(t) /\ ExpandLoop(t) = Extend(t, m2) /\ m < m2 /\ m2 <= s.limit
      BY <2>2, <2>3, <2>4, ExpandLoopIs
    <3>2. m2 \in Int
      BY <1>0, <2>0 DEF Lesser
    <3>3. Extend(t, m2) = Extend(s, m2)
      <4> HIDE DEF m2
      <4>1. QED
        BY <1>0, <1>3, <2>0, <3>1, <3>2, ExtendTwice
    <3>4. ReachBody(t, index) = Extend(s, m2)
      BY <2>3, <3>1, <3>3 DEF ReachBody
    <3>5. /\ Extend(s, m2).max = m2 /\ Extend(s, m2).limit = s.limit
      <4> HIDE DEF m2
      <4>1. QED
        BY <1>0, <2>0, <3>1, <3>2, ExtendWellFormed
    <3>6. CASE m + inc > index \/ m + inc >= s.limit
      <4>1. ~LoopWraps(s, index) /\ ReachMax(s, index) = m2
        BY <1>0, <2>0, <2>1, <2>4, <3>6
      <4>2. ExpandUntil(s, index) = Extend(s, m2)
        BY <1>0, <1>3, <2>0, <4>1 DEF ExpandUntil
      <4>3. m2 > index \/ m2 = s.limit
        BY <1>0, <2>0, <3>6 DEF Lesser
      <4> HIDE DEF m2
      <4>4. ~GoesOn(Extend(s, m2), index)
        BY <1>0, <3>2, <3>5, <4>3 DEF GoesOn, Full
      <4>5. QED
        BY <3>4, <4>1, <4>2, <4>4 DEF Grown
    <3>7. CASE ~(m + inc > index \/ m + inc >= s.limit)
      <4>1. m2 = s.max + (k + 1) * inc /\ m2 <= index /\ m2 < s.limit
        BY <1>0, <2>0, <2>1, <3>7 DEF Lesser
      <4> HIDE DEF m2
      <4>2. QED
        BY <3>4, <4>1 DEF Grown
    <3>8. QED
      BY <3>6, <3>7
  <2>5. CASE m + inc > IndexMax
    <3>1. LoopWraps(s, index)
      BY <1>0, <2>0, <2>1, <2>5
    <3>2. SumWraps(t)
      <4> DEFINE sum == m + inc
      <4>1. sum \in Int /\ IndexMax + 1 <= sum /\ sum < 2 * (IndexMax + 1) /\ sum - (IndexMax + 1) < m
        BY <1>0, <1>3, <2>0, <2>5
      <4> HIDE DEF sum
      <4>2. sum % (IndexMax + 1) = sum - (IndexMax + 1)
        BY <1>0, <4>1
      <4>3. t.max + t.increment = sum
        BY <2>2 DEF sum
      <4>4. QED
        BY <2>2, <4>1, <4>2, <4>3 DEF SumWraps
    <3>3. ReachBody(t, index) = t
      BY <3>2 DEF ReachBody
    <3>4. QED
      BY <2>3, <3>1, <3>2, <3>3 DEF Grown
  <2>6. QED
    BY <1>0, <2>0, <2>4, <2>5
<1>4. QED
  BY <1>1, <1>2, <1>3 DEF Grown

\* IndexMax iterations are enough for it to end or to wrap.
LEMMA GrownLast ==
  ASSUME NEW s \in StackType, WellFormed(s), NEW index \in Word, NEW t,
         Grown(s, index, t, IndexMax)
  PROVE  \/ ~GoesOn(t, index) /\ t = ExpandUntil(s, index) /\ ~LoopWraps(s, index)
         \/ GoesOn(t, index) /\ SumWraps(t) /\ LoopWraps(s, index)
<1>0. /\ s.increment \in Nat /\ 1 <= s.increment /\ s.limit \in Int /\ s.max \in Int
      /\ 0 <= s.max /\ s.limit <= IndexMax /\ IndexMax \in Nat
  BY StackFields, Words
<1> DEFINE inc == s.increment
<1>1. IndexMax * inc \in Int /\ IndexMax <= IndexMax * inc
  <2>1. inc \in Nat /\ 1 <= inc /\ IndexMax \in Nat
    BY <1>0
  <2> HIDE DEF inc
  <2>2. QED
    BY <2>1
<1>2. ~(s.max + IndexMax * inc < s.limit)
  BY <1>0, <1>1
<1>3. QED
  BY <1>2 DEF Grown

\* So the loop of index_stack_allocate () is the closed form, and wraps when that says so.
LEMMA ReachLoopIs ==
  ASSUME NEW s \in StackType, WellFormed(s), NEW index \in Word
  PROVE  /\ LoopWraps(s, index) <=> Shrinks(s, index)
         /\ ~LoopWraps(s, index) => ExpandUntil(s, index) = ReachLoop(s, index)
<1> DEFINE Body(f, n) == [k \in 0 .. n |-> IF k = 0 THEN s ELSE ReachBody(f[k - 1], index)]
           Some(n) == \E f : f = Body(f, n)
           Bad == {n \in Nat : ~Some(n)}
<1>1. Some(0)
  <2>1. [k \in 0 .. 0 |-> s] = Body([k \in 0 .. 0 |-> s], 0)
    OBVIOUS
  <2>2. QED
    BY <2>1
<1>2. ASSUME NEW n \in Nat, Some(n)
      PROVE  Some(n + 1)
  <2>1. PICK f : f = Body(f, n)
    BY <1>2
  <2> DEFINE g == [k \in 0 .. n + 1 |-> IF k = n + 1 THEN ReachBody(f[n], index) ELSE f[k]]
  <2>2. ASSUME NEW k \in 0 .. n + 1
        PROVE  g[k] = IF k = 0 THEN s ELSE ReachBody(g[k - 1], index)
    <3>1. CASE k = n + 1
      <4>1. k # 0 /\ k - 1 = n /\ n \in 0 .. n + 1 /\ n # n + 1
        BY <3>1
      <4>2. g[k] = ReachBody(f[n], index) /\ g[n] = f[n]
        BY <3>1, <4>1
      <4>3. QED
        BY <4>1, <4>2
    <3>2. CASE k # n + 1
      <4>1. k \in 0 .. n /\ g[k] = f[k]
        BY <3>2
      <4>2. f[k] = IF k = 0 THEN s ELSE ReachBody(f[k - 1], index)
        BY <2>1, <4>1
      <4>3. k # 0 => k - 1 \in 0 .. n + 1 /\ k - 1 # n + 1 /\ g[k - 1] = f[k - 1]
        BY <4>1
      <4>4. QED
        BY <4>1, <4>2, <4>3
    <3>3. QED
      BY <3>1, <3>2
  <2>3. g = Body(g, n + 1)
    BY <2>2
  <2>4. QED
    BY <2>3
<1>3. IndexMax \in Nat /\ Word = 0 .. IndexMax
  BY Words DEF Word
<1>4. Some(IndexMax)
  <2> HIDE DEF Some
  <2>1. ASSUME Bad # {}
        PROVE  FALSE
    <3>1. PICK p \in Bad : \A q \in Bad : p <= q
      BY <2>1, Least
    <3>2. p \in Nat /\ p # 0 /\ ~Some(p)
      BY <1>1, <3>1
    <3>3. p - 1 \in Nat /\ p - 1 \notin Bad /\ p - 1 + 1 = p
      BY <3>1, <3>2
    <3>4. Some(p)
      BY <1>2, <3>3
    <3>5. QED
      BY <3>2, <3>4
  <2>2. QED
    BY <1>3, <2>1
<1> DEFINE at == ReachFrom(s, index)
<1>5. at = CHOOSE f : f = Body(f, IndexMax)
  BY <1>3 DEF ReachFrom, ReachBody
<1>6. at = Body(at, IndexMax)
  <2> HIDE DEF at, Body
  <2>1. QED
    BY <1>4, <1>5
<1> HIDE DEF at, Some
<1>7. ASSUME NEW k \in 0 .. IndexMax
      PROVE  at[k] = IF k = 0 THEN s ELSE ReachBody(at[k - 1], index)
  BY <1>6
<1> HIDE DEF Body, Bad
<1> DEFINE Off == {k \in 0 .. IndexMax : ~Grown(s, index, at[k], k)}
<1>8. ASSUME Off # {}
      PROVE  FALSE
  <2>1. PICK p \in Off : \A q \in Off : p <= q
    <3>1. Off \subseteq Nat
      OBVIOUS
    <3> HIDE DEF Off
    <3>2. QED
      BY <1>8, <3>1, Least
  <2>2. p # 0
    <3>1. at[0] = s
      BY <1>3, <1>7
    <3>2. QED
      BY <2>1, <3>1, GrownFirst
  <2>3. p \in 0 .. IndexMax /\ p - 1 \in Nat /\ p - 1 \in 0 .. IndexMax /\ p - 1 + 1 = p
    BY <1>3, <2>1, <2>2
  <2>4. Grown(s, index, at[p - 1], p - 1)
    BY <2>1, <2>3
  <2>5. at[p] = ReachBody(at[p - 1], index)
    BY <1>7, <2>2, <2>3
  <2>6. Grown(s, index, at[p], p)
    BY <2>3, <2>4, <2>5, GrownNext
  <2>7. QED
    BY <2>1, <2>6
<1>9. Grown(s, index, at[IndexMax], IndexMax)
  BY <1>3, <1>8
<1>10. ReachLoop(s, index) = at[IndexMax]
  BY DEF ReachLoop, at
<1>11. QED
  BY <1>9, <1>10, GrownLast DEF Shrinks

\* The closed form of the growth is the code's loop, in every state.
THEOREM GrowthIsTheLoop == Spec => []GrowthAgrees
<1>1. IInv => GrowthAgrees
  <2> SUFFICES ASSUME IInv, phase = "live", NEW index \in Word
               PROVE  /\ LoopWraps(stack, index) <=> Shrinks(stack, index)
                      /\ ~LoopWraps(stack, index) =>
                             ExpandUntil(stack, index) = ReachLoop(stack, index)
    BY DEF GrowthAgrees
  <2>1. stack \in StackType /\ WellFormed(stack)
    BY DEF IInv, TypeOK, WrapOnlyAtTheEnd, ListsAreInverse
  <2>2. QED
    BY <2>1, ReachLoopIs
<1>2. QED
  BY <1>1, Invariance, PTL
=============================================================================
