------------------------ MODULE IndexStackOpsProofs ------------------------
(***************************************************************************)
(* What the operations on a stack value preserve, for every IndexMax.      *)
(* Everything that embeds an IndexStack cites these lemmas.                *)
(***************************************************************************)
EXTENDS IndexStackOps, TLAPS

\* The integers behind the types.  Proofs cite this instead of expanding Index
\* and Word.
LEMMA Words ==
  /\ \A x \in Index : x \in Int /\ 0 <= x /\ x < IndexMax
  /\ \A x \in Int : 0 <= x /\ x < IndexMax => x \in Index
  /\ \A x \in Word : x \in Int /\ 0 <= x /\ x <= IndexMax
  /\ \A x \in Int : 0 <= x /\ x <= IndexMax => x \in Word
  /\ \A x \in 2 .. IndexMax : x \in Int /\ 2 <= x /\ x <= IndexMax
  /\ \A x \in Int : 2 <= x /\ x <= IndexMax => x \in 2 .. IndexMax
  /\ \A x \in 1 .. IndexMax : x \in Int /\ 1 <= x /\ x <= IndexMax
  /\ \A x \in Int : 1 <= x /\ x <= IndexMax => x \in 1 .. IndexMax
  /\ IndexMax \in Int /\ IndexMax >= 2 /\ NIL = IndexMax
BY IndexMaxAssumption DEF IndexMaxAssumption, NIL, Index, Word

(***************************************************************************)
(* A list and the places of its elements.                                  *)
(***************************************************************************)

\* Appending an element that is not in the list.
LEMMA AppendMutual ==
  ASSUME NEW list \in [Index -> Word], NEW place \in [Index -> Word],
         NEW len \in Index, NEW max \in Word, NEW i \in Index,
         Mutual(list, place, len, max), i < max, place[i] = NIL
  PROVE  Mutual([list EXCEPT ![len] = i], [place EXCEPT ![i] = len], len + 1, max)
BY Words DEF Mutual

(***************************************************************************)
(* The record.                                                             *)
(***************************************************************************)

\* What the type of a stack says of each field.
LEMMA StackFields ==
  ASSUME NEW s \in StackType
  PROVE  /\ s.increment \in 1 .. IndexMax /\ s.limit \in 2 .. IndexMax
         /\ s.n \in Word /\ s.nfree \in Word /\ s.max \in Word
         /\ s.inUse \in [Index -> Word] /\ s.freeList \in [Index -> Word]
         /\ s.loc \in [Index -> Word] /\ s.locFree \in [Index -> Word]
BY DEF StackType

\* A stack just created is well formed, with no index in use.
LEMMA NewStackWellFormed ==
  ASSUME NEW limit \in 2 .. IndexMax, NEW increment \in Word
  PROVE  /\ NewStack(limit, increment) \in StackType
         /\ WellFormed(NewStack(limit, increment))
         /\ NewStack(limit, increment).n = 0
         /\ NewStack(limit, increment).max \in 1 .. limit
         /\ NewStack(limit, increment).loc = [i \in Index |-> NIL]
         /\ NewStack(limit, increment).limit = limit
         /\ NewStack(limit, increment).increment = IF increment = 0 THEN 1 ELSE increment
<1> DEFINE s == NewStack(limit, increment)
           step == IF increment = 0 THEN 1 ELSE increment
           max == Lesser(step, limit)
           ident == [p \in Index |-> IF p < max THEN p ELSE NIL]
           none == [p \in Index |-> NIL]
<1>1. step \in 1 .. IndexMax /\ max \in Int /\ 1 <= max /\ max <= limit
  BY Words DEF Lesser
<1>2. ident \in [Index -> Word] /\ none \in [Index -> Word]
  BY Words
<1>3. s = [increment |-> step, limit |-> limit, n |-> 0, nfree |-> max, max |-> max,
           inUse |-> none, freeList |-> ident, loc |-> none, locFree |-> ident]
  BY DEF NewStack, IncrementOf
<1> HIDE DEF s, max, step
<1>4. s \in StackType
  <2>1. max \in Word /\ 0 \in Word
    BY <1>1, Words
  <2>2. QED
    BY <1>1, <1>2, <1>3, <2>1 DEF StackType
<1>5. WellFormed(s)
  <2>1. /\ s.n = 0 /\ s.nfree = max /\ s.max = max /\ s.limit = limit
        /\ s.inUse = none /\ s.freeList = ident /\ s.loc = none /\ s.locFree = ident
    BY <1>3
  <2>2. Partitioned(s)
    BY <1>1, <2>1, Words DEF Partitioned
  <2>3. Mutual(none, none, 0, max)
    BY <1>1, Words DEF Mutual
  <2>4. Mutual(ident, ident, max, max)
    <3>1. \A p \in Index : ident[p] = IF p < max THEN p ELSE NIL
      OBVIOUS
    <3> HIDE DEF ident
    <3>2. QED
      BY <1>1, <3>1, Words DEF Mutual
  <2>5. QED
    BY <2>1, <2>2, <2>3, <2>4 DEF WellFormed
<1>6. s.max \in 1 .. limit
  BY <1>1, <1>3
<1>7. QED
  BY <1>3, <1>4, <1>5, <1>6 DEF s, step

\* Growing a stack to a larger max within its limit keeps it well formed and
\* leaves the list of indices in use alone.
LEMMA ExtendWellFormed ==
  ASSUME NEW s \in StackType, WellFormed(s),
         NEW m \in Int, s.max <= m, m <= s.limit
  PROVE  /\ Extend(s, m) \in StackType
         /\ WellFormed(Extend(s, m))
         /\ Extend(s, m).max = m
         /\ Extend(s, m).nfree = s.nfree + (m - s.max)
         /\ Extend(s, m).n = s.n
         /\ Extend(s, m).inUse = s.inUse
         /\ Extend(s, m).loc = s.loc
         /\ Extend(s, m).limit = s.limit
         /\ Extend(s, m).increment = s.increment
         /\ \A i \in Index : i < s.max => Extend(s, m).locFree[i] = s.locFree[i]
         /\ \A i \in Index : s.max <= i /\ i < m => Extend(s, m).locFree[i] # NIL
<1> DEFINE t == Extend(s, m)
           added == m - s.max
           freeList2 == [p \in Index |-> IF s.nfree <= p /\ p < s.nfree + added
                                           THEN s.max + (p - s.nfree) ELSE s.freeList[p]]
           locFree2 == [i \in Index |-> IF s.max <= i /\ i < m
                                          THEN s.nfree + (i - s.max) ELSE s.locFree[i]]
<1>0. /\ s.increment \in 1 .. IndexMax /\ s.limit \in 2 .. IndexMax
      /\ s.n \in Word /\ s.nfree \in Word /\ s.max \in Word
      /\ s.inUse \in [Index -> Word] /\ s.freeList \in [Index -> Word]
      /\ s.loc \in [Index -> Word] /\ s.locFree \in [Index -> Word]
  BY StackFields
<1>1. s.n + s.nfree = s.max
  BY DEF WellFormed, Partitioned
<1>2. [i \in Index |-> IF s.max <= i /\ i < m THEN NIL ELSE s.loc[i]] = s.loc
  BY <1>0, Words DEF WellFormed, Partitioned
<1>3. t = [s EXCEPT !.max = m, !.nfree = s.nfree + added, !.freeList = freeList2,
                    !.locFree = locFree2, !.loc = s.loc]
  BY <1>2 DEF Extend
<1>4. freeList2 \in [Index -> Word] /\ locFree2 \in [Index -> Word]
      /\ s.nfree + added \in Word /\ m \in Word
  BY <1>0, <1>1, Words
<1>5. t \in StackType
  BY <1>0, <1>3, <1>4 DEF StackType
<1>6. /\ t.max = m /\ t.nfree = s.nfree + added /\ t.n = s.n /\ t.inUse = s.inUse
      /\ t.limit = s.limit /\ t.increment = s.increment /\ t.loc = s.loc
      /\ t.freeList = freeList2 /\ t.locFree = locFree2
  BY <1>3 DEF StackType
<1> HIDE DEF t
<1>7. Partitioned(t)
  BY <1>0, <1>1, <1>6, Words DEF WellFormed, Partitioned
<1>8. Mutual(t.inUse, t.loc, t.n, t.max)
  BY <1>0, <1>6, Words DEF WellFormed, Mutual
<1>9. Mutual(t.freeList, t.locFree, t.nfree, t.max)
  BY <1>0, <1>1, <1>6, Words DEF WellFormed, Mutual
<1>10. QED
  BY <1>0, <1>1, <1>5, <1>6, <1>7, <1>8, <1>9, Words DEF WellFormed, t

\* One expansion of a stack whose growth does not wrap.
LEMMA ExpandGrows ==
  ASSUME NEW s \in StackType, WellFormed(s), ~Full(s),
         s.max + s.increment <= IndexMax
  PROVE  \E m \in Int : s.max < m /\ m <= s.limit /\ Expand(s) = Extend(s, m)
<1>0. /\ s.increment \in Int /\ 1 <= s.increment /\ s.limit \in Int /\ s.max \in Int
      /\ 0 <= s.max /\ s.max < s.limit
  BY StackFields, Words DEF WellFormed, Partitioned, Full
<1> DEFINE sum == s.max + s.increment
<1>1. sum % (IndexMax + 1) = sum
  BY <1>0, Words
<1> DEFINE m == Lesser(sum, s.limit)
<1>2. m \in Int /\ s.max < m /\ m <= s.limit
  BY <1>0 DEF Lesser
<1>3. Expand(s) = Extend(s, m)
  BY <1>0, <1>1, <1>2 DEF Expand
<1>4. QED
  BY <1>2, <1>3

\* Cutting info down to fewer elements keeps every field in its width, and the
\* counters as they were.
LEMMA TruncateType ==
  ASSUME NEW s \in StackType, NEW m \in Word
  PROVE  /\ Truncate(s, m) \in StackType
         /\ Truncate(s, m).n = s.n /\ Truncate(s, m).nfree = s.nfree
         /\ Truncate(s, m).limit = s.limit /\ Truncate(s, m).increment = s.increment
<1> DEFINE Kept(f) == [p \in Index |-> IF p < m THEN f[p] ELSE NIL]
<1>0. /\ s.increment \in 1 .. IndexMax /\ s.limit \in 2 .. IndexMax
      /\ s.n \in Word /\ s.nfree \in Word /\ s.max \in Word
      /\ s.inUse \in [Index -> Word] /\ s.freeList \in [Index -> Word]
      /\ s.loc \in [Index -> Word] /\ s.locFree \in [Index -> Word]
  BY StackFields
<1>1. ASSUME NEW f \in [Index -> Word] PROVE Kept(f) \in [Index -> Word]
  BY Words
<1>2. Truncate(s, m) = [s EXCEPT !.max = m, !.inUse = Kept(s.inUse),
                          !.freeList = Kept(s.freeList), !.loc = Kept(s.loc),
                          !.locFree = Kept(s.locFree)]
  BY DEF Truncate
<1>3. /\ Kept(s.inUse) \in [Index -> Word] /\ Kept(s.freeList) \in [Index -> Word]
      /\ Kept(s.loc) \in [Index -> Word] /\ Kept(s.locFree) \in [Index -> Word]
  BY <1>0, <1>1
<1> HIDE DEF Kept
<1>4. QED
  BY <1>0, <1>2, <1>3 DEF StackType

\* One expansion whose sum passes UINT16_MAX: the stack shrinks and gains no index.
LEMMA ExpandWraps ==
  ASSUME NEW s \in StackType, WellFormed(s), s.max + s.increment > IndexMax
  PROVE  /\ Expand(s) \in StackType
         /\ Expand(s).n = s.n /\ Expand(s).nfree = s.nfree
         /\ Expand(s).limit = s.limit /\ Expand(s).increment = s.increment
<1>0. /\ s.increment \in Int /\ 1 <= s.increment /\ s.increment <= IndexMax
      /\ s.limit \in Int /\ 2 <= s.limit /\ s.max \in Int /\ 0 <= s.max /\ s.max <= IndexMax
      /\ IndexMax \in Int
  BY StackFields, Words
<1> DEFINE sum == s.max + s.increment
           m == Lesser(sum - (IndexMax + 1), s.limit)
<1>1. sum % (IndexMax + 1) = sum - (IndexMax + 1)
  BY <1>0, Words
<1>2. m \in Word /\ m < s.max
  BY <1>0, Words DEF Lesser
<1>3. Expand(s) = Truncate(s, m)
  BY <1>1, <1>2 DEF Expand
<1>4. QED
  BY <1>2, <1>3, TruncateType

\* The sums the loop of index_stack_allocate () forms: the last one reaches limit,
\* and the one before stays below it.
LEMMA LastSumBounds ==
  ASSUME NEW s \in StackType, WellFormed(s), ~Full(s)
  PROVE  /\ LastSum(s) \in Int /\ LastSum(s) >= s.limit
         /\ s.max <= LastSum(s) - s.increment /\ LastSum(s) - s.increment < s.limit
<1>0. /\ s.increment \in Int /\ 1 <= s.increment /\ s.limit \in Int /\ s.max \in Int
      /\ 0 <= s.max /\ s.max < s.limit
  BY StackFields, Words DEF WellFormed, Partitioned, Full
<1> DEFINE inc == s.increment
           a == s.limit - s.max + inc - 1
           q == a \div inc
<1>1. a \in Int /\ inc \in Int /\ 1 <= inc /\ inc <= a
  BY <1>0
<1>2. q \in Int /\ 1 <= q /\ q * inc <= a /\ a < q * inc + inc /\ q * inc \in Int
  <2> HIDE DEF a, inc
  <2>1. q \in Int /\ q * inc <= a /\ a < q * inc + inc /\ q * inc \in Int
    BY <1>1
  <2>2. 1 <= q
    <3>1. ASSUME q <= 0 PROVE FALSE
      <4>1. q * inc <= 0
        BY <1>1, <2>1, <3>1
      <4>2. QED BY <1>1, <2>1, <4>1
    <3>2. QED BY <2>1, <3>1
  <2>3. QED BY <2>1, <2>2
<1>3. inc <= q * inc
  <2> HIDE DEF q, inc
  <2>1. QED BY <1>1, <1>2
<1>4. LastSum(s) = s.max + q * inc
  BY DEF LastSum
<1> HIDE DEF q
<1>5. QED
  BY <1>0, <1>2, <1>3, <1>4

\* The two sets of indices a well-formed stack stands for.
LEMMA UsedAndFree ==
  ASSUME NEW s \in StackType, WellFormed(s)
  PROVE  /\ UsedSet(s) = {i \in Index : s.loc[i] # NIL}
         /\ FreeSet(s) = {i \in Index : s.locFree[i] # NIL}
         /\ UsedSet(s) \subseteq 0 .. s.max - 1
         /\ FreeSet(s) = (0 .. s.max - 1) \ UsedSet(s)
         /\ s.max \in Int /\ 0 <= s.max /\ s.max <= s.limit /\ s.limit \in Int
<1>0. /\ s.limit \in Int /\ s.max \in Int /\ 0 <= s.max /\ s.max <= s.limit
      /\ s.limit <= IndexMax
  BY StackFields, Words DEF WellFormed, Partitioned
<1>1. \A i \in Index : IF i < s.max THEN (s.loc[i] = NIL) # (s.locFree[i] = NIL)
                                    ELSE s.loc[i] = NIL /\ s.locFree[i] = NIL
  BY DEF WellFormed, Partitioned
<1>2. \A i : i \in 0 .. s.max - 1 <=> i \in Index /\ i < s.max
  BY <1>0, Words DEF Index
<1>3. QED
  BY <1>0, <1>1, <1>2 DEF UsedSet, FreeSet, InUse, IsFree

\* The loop of index_stack_allocate () stops at the first max above index, or
\* at limit.
LEMMA ReachMaxBounds ==
  ASSUME NEW s \in StackType, WellFormed(s), NEW index \in Word
  PROVE  /\ ReachMax(s, index) \in Int
         /\ s.max <= ReachMax(s, index) /\ ReachMax(s, index) <= s.limit
         /\ index < s.limit => index < ReachMax(s, index)
<1>0. /\ s.increment \in Int /\ 1 <= s.increment /\ s.limit \in Int /\ s.max \in Int
      /\ 0 <= s.max /\ s.max <= s.limit /\ index \in Int
  BY StackFields, Words DEF WellFormed, Partitioned
<1>1. CASE index < s.max
  BY <1>0, <1>1 DEF ReachMax
<1>2. CASE index >= s.max
  <2> DEFINE d == index - s.max
             inc == s.increment
             q == d \div inc
  <2>1. q \in Int /\ 0 <= q /\ d < (q + 1) * inc
    BY <1>0, <1>2
  <2>2. /\ (q + 1) * inc \in Int
        /\ ReachMax(s, index) = Lesser(s.max + (q + 1) * inc, s.limit)
    BY <1>0, <1>2, <2>1 DEF ReachMax
  <2> HIDE DEF q, inc
  <2>3. QED
    BY <1>0, <1>2, <2>1, <2>2 DEF Lesser
<1>3. QED
  BY <1>0, <1>1, <1>2

\* Growing until index fits is a growth: nothing in use moves, and what fits
\* under the limit fits at last.
LEMMA ExpandUntilWellFormed ==
  ASSUME NEW s \in StackType, WellFormed(s), NEW index \in Word
  PROVE  /\ ExpandUntil(s, index) \in StackType /\ WellFormed(ExpandUntil(s, index))
         /\ s.max <= ExpandUntil(s, index).max
         /\ ExpandUntil(s, index).n = s.n /\ ExpandUntil(s, index).loc = s.loc
         /\ ExpandUntil(s, index).inUse = s.inUse
         /\ ExpandUntil(s, index).limit = s.limit
         /\ ExpandUntil(s, index).increment = s.increment
         /\ index < s.limit => index < ExpandUntil(s, index).max
<1>1. CASE index < s.max
  BY <1>1, StackFields, Words DEF ExpandUntil
<1>2. CASE ~(index < s.max)
  <2>1. /\ ReachMax(s, index) \in Int
        /\ s.max <= ReachMax(s, index) /\ ReachMax(s, index) <= s.limit
        /\ index < s.limit => index < ReachMax(s, index)
    BY ReachMaxBounds
  <2>2. ExpandUntil(s, index) = Extend(s, ReachMax(s, index))
    BY <1>2 DEF ExpandUntil
  <2>3. QED
    BY <2>1, <2>2, ExtendWellFormed
<1>3. QED
  BY <1>1, <1>2

\* Moving a free index to the used list, filling the hole it leaves with the
\* last free one.
LEMMA ClaimWellFormed ==
  ASSUME NEW s \in StackType, WellFormed(s), NEW i \in Index, s.locFree[i] # NIL
  PROVE  /\ Claim(s, i) \in StackType
         /\ WellFormed(Claim(s, i))
         /\ Claim(s, i).n = s.n + 1
         /\ Claim(s, i).max = s.max
         /\ Claim(s, i).limit = s.limit
         /\ Claim(s, i).increment = s.increment
         /\ Claim(s, i).loc = [s.loc EXCEPT ![i] = s.n]
         /\ s.loc[i] = NIL /\ i < s.max /\ s.n \in Index
         /\ \A j \in Index : Claim(s, i).locFree[j] # NIL <=> s.locFree[j] # NIL /\ j # i
<1> DEFINE t == Claim(s, i)
           hole == s.locFree[i]
           last == s.freeList[s.nfree - 1]
           freeList2 == [s.freeList EXCEPT ![hole] = last, ![s.nfree - 1] = NIL]
           locFree2 == [s.locFree EXCEPT ![last] = hole, ![i] = NIL]
           inUse2 == [s.inUse EXCEPT ![s.n] = i]
           loc2 == [s.loc EXCEPT ![i] = s.n]
<1>0. /\ s.increment \in 1 .. IndexMax /\ s.limit \in 2 .. IndexMax
      /\ s.n \in Word /\ s.nfree \in Word /\ s.max \in Word
      /\ s.inUse \in [Index -> Word] /\ s.freeList \in [Index -> Word]
      /\ s.loc \in [Index -> Word] /\ s.locFree \in [Index -> Word]
  BY StackFields
<1>1. /\ Mutual(s.freeList, s.locFree, s.nfree, s.max)
      /\ Mutual(s.inUse, s.loc, s.n, s.max)
      /\ s.n + s.nfree = s.max /\ s.max <= s.limit
      /\ i < s.max /\ s.loc[i] = NIL
  BY <1>0, Words DEF WellFormed, Partitioned
<1>2. /\ s.nfree - 1 \in Index /\ hole \in Index /\ last \in Index
      /\ s.locFree[last] = s.nfree - 1
      /\ Mutual(freeList2, locFree2, s.nfree - 1, s.max)
  <2>1. /\ s.nfree - 1 \in Index /\ hole \in Index
        /\ hole < s.nfree /\ s.freeList[hole] = i
    BY <1>0, <1>1, Words DEF Mutual
  <2>2. last \in Index /\ last < s.max /\ s.locFree[last] = s.nfree - 1
    BY <1>0, <1>1, <2>1, Words DEF Mutual
  <2>3. \A p \in Index : p < s.nfree - 1 =>
          freeList2[p] = IF p = hole THEN last ELSE s.freeList[p]
    BY <1>0, <2>1, <2>2, Words
  <2>4. \A j \in Index :
          locFree2[j] = IF j = i THEN NIL ELSE IF j = last THEN hole ELSE s.locFree[j]
    BY <1>0, <2>1, <2>2, Words
  <2> HIDE DEF freeList2, locFree2
  <2>5. Mutual(freeList2, locFree2, s.nfree - 1, s.max)
    <3>1. /\ \A p \in Index : p < s.nfree => s.freeList[p] < s.max /\ s.locFree[s.freeList[p]] = p
          /\ \A j \in Index : s.locFree[j] # NIL =>
                                s.locFree[j] < s.nfree /\ s.freeList[s.locFree[j]] = j
          /\ hole = s.locFree[i] /\ last = s.freeList[s.nfree - 1]
      BY <1>1 DEF Mutual
    <3> HIDE DEF hole, last
    <3>2. ASSUME NEW p \in Index, p < s.nfree - 1
          PROVE  freeList2[p] < s.max /\ locFree2[freeList2[p]] = p
      BY <1>0, <1>1, <2>1, <2>2, <2>3, <2>4, <3>1, <3>2, Words
    <3>3. ASSUME NEW j \in Index, locFree2[j] # NIL
          PROVE  locFree2[j] < s.nfree - 1 /\ freeList2[locFree2[j]] = j
      BY <1>0, <2>1, <2>2, <2>3, <2>4, <3>1, <3>3, Words
    <3>4. QED
      BY <3>2, <3>3 DEF Mutual
  <2>6. QED
    BY <2>1, <2>2, <2>5
<1>3. s.n \in Index /\ s.n + 1 \in Word /\ s.nfree - 1 \in Word
  BY <1>0, <1>1, <1>2, Words
<1>4. Mutual(inUse2, loc2, s.n + 1, s.max)
  BY <1>0, <1>1, <1>3, AppendMutual
<1>5. t = [s EXCEPT !.n = s.n + 1, !.inUse = inUse2, !.loc = loc2,
                    !.nfree = s.nfree - 1, !.freeList = freeList2, !.locFree = locFree2]
  BY DEF Claim, Head
<1>6. /\ inUse2 \in [Index -> Word] /\ loc2 \in [Index -> Word]
      /\ freeList2 \in [Index -> Word] /\ locFree2 \in [Index -> Word]
  BY <1>0, <1>2, <1>3, Words
<1>7. \A j \in Index : locFree2[j] # NIL <=> s.locFree[j] # NIL /\ j # i
  BY <1>0, <1>2, Words
<1> HIDE DEF inUse2, freeList2, locFree2, hole, last
<1>8. t \in StackType
  BY <1>0, <1>3, <1>5, <1>6 DEF StackType
<1>9. /\ t.n = s.n + 1 /\ t.nfree = s.nfree - 1 /\ t.max = s.max
      /\ t.limit = s.limit /\ t.increment = s.increment
      /\ t.inUse = inUse2 /\ t.loc = loc2 /\ t.freeList = freeList2 /\ t.locFree = locFree2
  BY <1>5 DEF StackType
<1> HIDE DEF t
<1>10. Partitioned(t)
  BY <1>0, <1>1, <1>3, <1>7, <1>9, Words DEF WellFormed, Partitioned
<1>11. WellFormed(t)
  BY <1>2, <1>4, <1>9, <1>10 DEF WellFormed
<1>12. QED
  BY <1>1, <1>3, <1>7, <1>8, <1>9, <1>11 DEF t

\* Popping is claiming the head of the free list.
LEMMA PopIsClaim ==
  ASSUME NEW s \in StackType, WellFormed(s), s.nfree # 0
  PROVE  /\ Head(s) \in Index /\ s.locFree[Head(s)] # NIL
         /\ Pop(s) = Claim(s, Head(s))
<1>0. /\ s.n \in Word /\ s.nfree \in Word /\ s.max \in Word
      /\ s.freeList \in [Index -> Word] /\ s.locFree \in [Index -> Word]
      /\ s.loc \in [Index -> Word] /\ s.inUse \in [Index -> Word]
  BY StackFields
<1>1. s.nfree - 1 \in Index
  BY <1>0, Words DEF WellFormed, Partitioned
<1>2. Head(s) \in Index /\ s.locFree[Head(s)] = s.nfree - 1
  BY <1>0, <1>1, Words DEF WellFormed, Mutual, Head
<1>3. /\ [s.freeList EXCEPT ![s.nfree - 1] = Head(s), ![s.nfree - 1] = NIL]
           = [s.freeList EXCEPT ![s.nfree - 1] = NIL]
      /\ [s.locFree EXCEPT ![Head(s)] = s.nfree - 1, ![Head(s)] = NIL]
           = [s.locFree EXCEPT ![Head(s)] = NIL]
  BY <1>0, <1>1, <1>2
<1>4. Pop(s) = Claim(s, Head(s))
  BY <1>2, <1>3 DEF Pop, Claim, StackType
<1>5. QED
  BY <1>1, <1>2, <1>4, Words

\* Moving a used index to the free list, filling its hole with the last used one.
LEMMA ReleaseWellFormed ==
  ASSUME NEW s \in StackType, WellFormed(s), NEW i \in Index, s.loc[i] # NIL
  PROVE  /\ Release(s, i) \in StackType
         /\ WellFormed(Release(s, i))
         /\ Release(s, i).n = s.n - 1 /\ s.n - 1 \in Index
         /\ Release(s, i).max = s.max
         /\ Release(s, i).limit = s.limit
         /\ Release(s, i).increment = s.increment
         /\ Release(s, i).inUse
              = [s.inUse EXCEPT ![s.loc[i]] = s.inUse[s.n - 1], ![s.n - 1] = NIL]
         /\ s.loc[i] < s.n /\ s.loc[i] \in Index /\ i < s.max
         /\ \A j \in Index : Release(s, i).loc[j] # NIL <=> s.loc[j] # NIL /\ j # i
         /\ \A j \in Index : Release(s, i).locFree[j] # NIL <=> s.locFree[j] # NIL \/ j = i
<1> DEFINE t == Release(s, i)
           hole == s.loc[i]
           last == s.inUse[s.n - 1]
           inUse2 == [s.inUse EXCEPT ![hole] = last, ![s.n - 1] = NIL]
           loc2 == [s.loc EXCEPT ![last] = hole, ![i] = NIL]
           freeList2 == [s.freeList EXCEPT ![s.nfree] = i]
           locFree2 == [s.locFree EXCEPT ![i] = s.nfree]
<1>0. /\ s.increment \in 1 .. IndexMax /\ s.limit \in 2 .. IndexMax
      /\ s.n \in Word /\ s.nfree \in Word /\ s.max \in Word
      /\ s.inUse \in [Index -> Word] /\ s.freeList \in [Index -> Word]
      /\ s.loc \in [Index -> Word] /\ s.locFree \in [Index -> Word]
  BY StackFields
<1>1. /\ Mutual(s.freeList, s.locFree, s.nfree, s.max)
      /\ Mutual(s.inUse, s.loc, s.n, s.max)
      /\ s.n + s.nfree = s.max /\ s.max <= s.limit
      /\ i < s.max /\ s.locFree[i] = NIL
  BY <1>0, Words DEF WellFormed, Partitioned
<1>2. /\ s.n - 1 \in Index /\ hole \in Index /\ last \in Index
      /\ s.loc[last] = s.n - 1 /\ hole < s.n
      /\ Mutual(inUse2, loc2, s.n - 1, s.max)
  <2>1. /\ s.n - 1 \in Index /\ hole \in Index
        /\ hole < s.n /\ s.inUse[hole] = i
    BY <1>0, <1>1, Words DEF Mutual
  <2>2. last \in Index /\ last < s.max /\ s.loc[last] = s.n - 1
    BY <1>0, <1>1, <2>1, Words DEF Mutual
  <2>3. \A p \in Index : p < s.n - 1 =>
          inUse2[p] = IF p = hole THEN last ELSE s.inUse[p]
    BY <1>0, <2>1, <2>2, Words
  <2>4. \A j \in Index :
          loc2[j] = IF j = i THEN NIL ELSE IF j = last THEN hole ELSE s.loc[j]
    BY <1>0, <2>1, <2>2, Words
  <2> HIDE DEF inUse2, loc2
  <2>5. Mutual(inUse2, loc2, s.n - 1, s.max)
    <3>1. /\ \A p \in Index : p < s.n => s.inUse[p] < s.max /\ s.loc[s.inUse[p]] = p
          /\ \A j \in Index : s.loc[j] # NIL =>
                                s.loc[j] < s.n /\ s.inUse[s.loc[j]] = j
          /\ hole = s.loc[i] /\ last = s.inUse[s.n - 1]
      BY <1>1 DEF Mutual
    <3> HIDE DEF hole, last
    <3>2. ASSUME NEW p \in Index, p < s.n - 1
          PROVE  inUse2[p] < s.max /\ loc2[inUse2[p]] = p
      BY <1>0, <1>1, <2>1, <2>2, <2>3, <2>4, <3>1, <3>2, Words
    <3>3. ASSUME NEW j \in Index, loc2[j] # NIL
          PROVE  loc2[j] < s.n - 1 /\ inUse2[loc2[j]] = j
      BY <1>0, <2>1, <2>2, <2>3, <2>4, <3>1, <3>3, Words
    <3>4. QED
      BY <3>2, <3>3 DEF Mutual
  <2>6. QED
    BY <2>1, <2>2, <2>5
<1>3. s.nfree \in Index /\ s.nfree + 1 \in Word /\ s.n - 1 \in Word
  BY <1>0, <1>1, <1>2, Words
<1>4. Mutual(freeList2, locFree2, s.nfree + 1, s.max)
  BY <1>0, <1>1, <1>3, AppendMutual
<1>5. t = [s EXCEPT !.n = s.n - 1, !.inUse = inUse2, !.loc = loc2,
                    !.nfree = s.nfree + 1, !.freeList = freeList2, !.locFree = locFree2]
  BY DEF Release
<1>6. /\ inUse2 \in [Index -> Word] /\ loc2 \in [Index -> Word]
      /\ freeList2 \in [Index -> Word] /\ locFree2 \in [Index -> Word]
  BY <1>0, <1>2, <1>3, Words
<1>7. \A j \in Index : /\ loc2[j] # NIL <=> s.loc[j] # NIL /\ j # i
                       /\ locFree2[j] # NIL <=> s.locFree[j] # NIL \/ j = i
  BY <1>0, <1>2, <1>3, Words
<1> HIDE DEF loc2, freeList2, locFree2
<1>8. t \in StackType
  BY <1>0, <1>3, <1>5, <1>6 DEF StackType
<1>9. /\ t.n = s.n - 1 /\ t.nfree = s.nfree + 1 /\ t.max = s.max
      /\ t.limit = s.limit /\ t.increment = s.increment
      /\ t.inUse = inUse2 /\ t.loc = loc2 /\ t.freeList = freeList2 /\ t.locFree = locFree2
  BY <1>5 DEF StackType
<1> HIDE DEF t
<1>10. Partitioned(t)
  BY <1>0, <1>1, <1>3, <1>7, <1>9, Words DEF WellFormed, Partitioned
<1>11. WellFormed(t)
  BY <1>2, <1>4, <1>9, <1>10 DEF WellFormed
<1>12. QED
  BY <1>1, <1>2, <1>7, <1>8, <1>9, <1>11 DEF t

\* What claiming and releasing do to the sets of indices.
LEMMA ClaimSets ==
  ASSUME NEW s \in StackType, WellFormed(s), NEW i \in Index, s.locFree[i] # NIL
  PROVE  /\ i \in FreeSet(s) /\ i \notin UsedSet(s)
         /\ UsedSet(Claim(s, i)) = UsedSet(s) \cup {i}
<1> DEFINE t == Claim(s, i)
<1>1. /\ t \in StackType /\ WellFormed(t)
      /\ t.loc = [s.loc EXCEPT ![i] = s.n] /\ s.n \in Index /\ s.loc[i] = NIL
  BY ClaimWellFormed
<1> HIDE DEF t
<1>2. UsedSet(t) = {j \in Index : t.loc[j] # NIL}
  BY <1>1, UsedAndFree
<1>3. /\ UsedSet(s) = {j \in Index : s.loc[j] # NIL}
      /\ FreeSet(s) = {j \in Index : s.locFree[j] # NIL}
  BY UsedAndFree
<1>4. \A j \in Index : t.loc[j] # NIL <=> s.loc[j] # NIL \/ j = i
  BY <1>1, StackFields, Words
<1>5. QED
  BY <1>1, <1>2, <1>3, <1>4 DEF t

LEMMA ReleaseSets ==
  ASSUME NEW s \in StackType, WellFormed(s), NEW i \in Index, s.loc[i] # NIL
  PROVE  /\ i \in UsedSet(s)
         /\ UsedSet(Release(s, i)) = UsedSet(s) \ {i}
         /\ FreeSet(Release(s, i)) = FreeSet(s) \cup {i}
<1> DEFINE t == Release(s, i)
<1>1. /\ t \in StackType /\ WellFormed(t)
      /\ \A j \in Index : t.loc[j] # NIL <=> s.loc[j] # NIL /\ j # i
      /\ \A j \in Index : t.locFree[j] # NIL <=> s.locFree[j] # NIL \/ j = i
  BY ReleaseWellFormed
<1> HIDE DEF t
<1>2. /\ UsedSet(t) = {j \in Index : t.loc[j] # NIL}
      /\ FreeSet(t) = {j \in Index : t.locFree[j] # NIL}
  BY <1>1, UsedAndFree
<1>3. /\ UsedSet(s) = {j \in Index : s.loc[j] # NIL}
      /\ FreeSet(s) = {j \in Index : s.locFree[j] # NIL}
  BY UsedAndFree
<1>4. QED
  BY <1>1, <1>2, <1>3 DEF t
=============================================================================
