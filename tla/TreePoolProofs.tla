--------------------------- MODULE TreePoolProofs ---------------------------
(***************************************************************************)
(* The proofs of TreePool: types, the free lists, the partition of the     *)
(* pages, the merging of buddies, and that the pool implements PagePool.   *)
(* Numbers of nodes are turned into coordinates first.  What Split and     *)
(* Coalesce do to the flags (Divided, Coalescing) and to the lists         *)
(* (PushEach, PopEach) is shown apart, then put together, action by        *)
(* action, in the inductive invariant Inv.  Last, the loops of             *)
(* TreePoolLoops: each of their iterations, in closed form, follows from   *)
(* the one before, so the loops leave what the operators of TreePool say.  *)
(***************************************************************************)
EXTENDS TreePoolLoops, FiniteSetTheorems, WellFoundedInduction, TLAPS

(***************************************************************************)
(* Powers of two, quotients and least elements.                            *)
(***************************************************************************)
\* A set of k + 1 elements has twice the subsets of one of k.
LEMMA TwoToThe ==
  ASSUME NEW k \in Nat
  PROVE  2 ^ k \in Nat /\ 2 ^ k >= 1 /\ 2 ^ (k + 1) = 2 * 2 ^ k
<1> DEFINE S == 1 .. k
           A == SUBSET S
           T == 1 .. k + 1
           B == {a \cup {k + 1} : a \in A}
           f == [a \in A |-> a \cup {k + 1}]
<1>1. /\ IsFiniteSet(S) /\ Cardinality(S) = k /\ IsFiniteSet(T) /\ Cardinality(T) = k + 1
      /\ T = S \cup {k + 1} /\ k + 1 \notin S
  <2>1. IsFiniteSet(S) /\ Cardinality(S) = k
    BY FS_Interval
  <2>2. T = S \cup {k + 1} /\ k + 1 \notin S
    OBVIOUS
  <2> HIDE DEF S, T
  <2>3. QED
    BY <2>1, <2>2, FS_AddElement
<1> HIDE DEF S, T
<1>2. IsFiniteSet(A) /\ Cardinality(A) = 2 ^ k
  BY <1>1, FS_SUBSET
<1>3. IsFiniteSet(SUBSET T) /\ Cardinality(SUBSET T) = 2 ^ (k + 1)
  BY <1>1, FS_SUBSET
<1>4. SUBSET T = A \cup B
  <2>1. ASSUME NEW t \in SUBSET T
        PROVE  t \in A \cup B
    <3>1. CASE k + 1 \in t
      <4>1. t \ {k + 1} \in A /\ t = (t \ {k + 1}) \cup {k + 1}
        BY <1>1, <3>1
      <4>2. QED
        BY <4>1
    <3>2. CASE k + 1 \notin t
      BY <1>1, <3>2
    <3>3. QED
      BY <3>1, <3>2
  <2>2. ASSUME NEW t \in A \cup B
        PROVE  t \in SUBSET T
    BY <1>1
  <2> HIDE DEF A, B
  <2>3. QED
    BY <2>1, <2>2
<1>5. A \cap B = {}
  BY <1>1
<1>6. f \in Bijection(A, B)
  <2>1. f \in [A -> B] /\ \A b \in B : \E a \in A : f[a] = b
    OBVIOUS
  <2>2. \A a, b \in A : f[a] = f[b] => a = b
    BY <1>1
  <2> HIDE DEF f, A, B
  <2>3. QED
    BY <2>1, <2>2, Zenon DEF Bijection, Injection, Surjection, IsInjective
<1>7. IsFiniteSet(B) /\ Cardinality(B) = 2 ^ k
  BY <1>2, <1>6, FS_Bijection DEF ExistsBijection
<1>8. Cardinality(A \cup B) = Cardinality(A) + Cardinality(B)
  <2> HIDE DEF A, B
  <2>1. Cardinality(A \cup B) = Cardinality(A) + Cardinality(B) - Cardinality(A \cap B)
    BY <1>2, <1>7, FS_Union
  <2>2. Cardinality(A \cap B) = 0 /\ Cardinality(A) \in Nat /\ Cardinality(B) \in Nat
    BY <1>2, <1>5, <1>7, FS_EmptySet, FS_CardinalityType
  <2>3. QED
    BY <2>1, <2>2
<1>9. 2 ^ k \in Nat /\ 2 ^ k # 0
  BY <1>2, FS_EmptySet, FS_CardinalityType
<1>10. 2 ^ (k + 1) = 2 ^ k + 2 ^ k
  BY <1>2, <1>3, <1>4, <1>7, <1>8
<1>11. QED
  BY <1>9, <1>10

\* The quotient and the remainder of a division.
LEMMA Division ==
  ASSUME NEW m \in Nat \ {0}, NEW h \in Nat
  PROVE  h \div m \in Int /\ h % m \in 0 .. m - 1 /\ h = m * (h \div m) + (h % m)
OBVIOUS

\* They are the only ones.
LEMMA Quotient ==
  ASSUME NEW n0 \in Nat \ {0}, NEW c \in Int, NEW r \in 0 .. n0 - 1, NEW h \in Nat, h = n0 * c + r
  PROVE  h % n0 = r /\ h \div n0 = c
<1> DEFINE d == h \div n0
           s == h % n0
<1>1. d \in Int /\ s \in 0 .. n0 - 1 /\ h = n0 * d + s
  OBVIOUS
<1> HIDE DEF d, s
<1>2. n0 * (d - c) = r - s
  BY <1>1
<1>3. ~(d - c >= 1)
  <2> SUFFICES ASSUME d - c >= 1
               PROVE  FALSE
    OBVIOUS
  <2>1. n0 * (d - c) >= n0
    BY <1>1
  <2>2. QED
    BY <1>1, <1>2, <2>1
<1>4. ~(d - c <= -1)
  <2> SUFFICES ASSUME d - c <= -1
               PROVE  FALSE
    OBVIOUS
  <2>1. n0 * (d - c) <= - n0
    BY <1>1
  <2>2. QED
    BY <1>1, <1>2, <2>1
<1>5. d = c
  BY <1>1, <1>3, <1>4
<1>6. s = r
  BY <1>1, <1>2, <1>5
<1>7. QED
  BY <1>5, <1>6 DEF d, s

\* A set of numbers has a least one.
LEMMA Least ==
  ASSUME NEW S, S \subseteq Nat, S # {}
  PROVE  \E p \in S : \A q \in S : p <= q
<1> DEFINE R == {ss \in Nat \X Nat : ss[1] < ss[2]}
<1>1. IsWellFoundedOn(R, Nat)
  BY NatLessThanWellFounded DEF OpToRel
<1>2. PICK p \in S : \A q \in S : ~(<<q, p>> \in R)
  BY <1>1, WFMin
<1>3. \A q \in S : p \in Nat /\ q \in Nat /\ ~(q < p)
  BY <1>2
<1>4. \A q \in S : p <= q
  BY <1>3
<1>5. QED
  BY <1>4

\* Powers of two multiply.
LEMMA PowerSum ==
  ASSUME NEW a \in Nat, NEW b \in Nat
  PROVE  2 ^ (a + b) = 2 ^ a * 2 ^ b
<1> DEFINE Bad == {k \in Nat : 2 ^ (a + k) # 2 ^ a * 2 ^ k}
<1>1. SUFFICES ASSUME Bad # {}
               PROVE  FALSE
  OBVIOUS
<1>2. PICK k \in Bad : \A j \in Bad : k <= j
  BY <1>1, Least
<1>3. k \in Nat /\ 2 ^ a \in Nat /\ 2 ^ k \in Nat
  BY TwoToThe
<1>4. CASE k = 0
  BY <1>3, <1>4
<1>5. CASE k # 0
  <2> DEFINE j == k - 1
  <2>1. j \in Nat /\ j \notin Bad /\ j + 1 = k /\ a + j \in Nat /\ (a + j) + 1 = a + k
    BY <1>2, <1>3, <1>5
  <2> HIDE DEF j
  <2>2. 2 ^ (a + j) = 2 ^ a * 2 ^ j
    BY <2>1
  <2>3. 2 ^ k = 2 * 2 ^ j /\ 2 ^ (a + k) = 2 * 2 ^ (a + j) /\ 2 ^ j \in Nat
    BY <2>1, TwoToThe
  <2> DEFINE x == 2 ^ a
             y == 2 ^ j
  <2>4. x \in Nat /\ y \in Nat /\ 2 ^ (a + k) = 2 * (x * y) /\ 2 ^ k = 2 * y
    BY <1>3, <2>2, <2>3
  <2>5. 2 ^ (a + k) = x * 2 ^ k
    BY <2>4
  <2>6. QED
    BY <1>2, <2>5
<1>6. QED
  BY <1>4, <1>5

\* The smaller of two powers of two divides the larger.
LEMMA PowersGrow ==
  ASSUME NEW a \in Nat, NEW b \in Nat, a <= b
  PROVE  /\ 2 ^ a \in Nat \ {0} /\ 2 ^ b \in Nat \ {0} /\ 2 ^ a <= 2 ^ b
         /\ 2 ^ (b - a) \in Nat \ {0} /\ 2 ^ b = 2 ^ a * 2 ^ (b - a)
<1> DEFINE d == b - a
<1>1. d \in Nat /\ a + d = b
  OBVIOUS
<1> HIDE DEF d
<1>2. 2 ^ b = 2 ^ a * 2 ^ d
  BY <1>1, PowerSum
<1>3. 2 ^ a \in Nat /\ 2 ^ a >= 1 /\ 2 ^ b \in Nat /\ 2 ^ b >= 1 /\ 2 ^ d \in Nat /\ 2 ^ d >= 1
  BY <1>1, TwoToThe
<1>4. 2 ^ a <= 2 ^ b
  <2> DEFINE x == 2 ^ a
             y == 2 ^ d
  <2>1. x \in Nat /\ y \in Nat /\ y >= 1 /\ 2 ^ b = x * y
    BY <1>2, <1>3
  <2> HIDE DEF x, y
  <2>2. x * y >= x
    BY <2>1
  <2>3. QED
    BY <2>1, <2>2 DEF x
<1>5. QED
  BY <1>2, <1>3, <1>4 DEF d

\* To divide by x and then by y is to divide by the product.
LEMMA Nested ==
  ASSUME NEW q \in Nat, NEW x \in Nat \ {0}, NEW y \in Nat \ {0}
  PROVE  (q \div x) \div y = q \div (x * y) /\ q \div x \in Nat
<1> DEFINE c == q \div x
           r == q % x
           d == c \div y
           s == c % y
<1>1. c \in Int /\ r \in 0 .. x - 1 /\ q = x * c + r
  BY Division
<1>2. c \in Nat
  <2> HIDE DEF c, r
  <2>1. SUFFICES ASSUME c <= -1
                 PROVE  FALSE
    BY <1>1
  <2>2. x * c <= - x
    BY <1>1, <2>1
  <2>3. QED
    BY <1>1, <2>2
<1>3. d \in Int /\ s \in 0 .. y - 1 /\ c = y * d + s
  BY <1>2, Division
<1> DEFINE z == x * y
           e == x * s + r
<1> HIDE DEF c, r, d, s
<1>4. q = z * d + e
  BY <1>1, <1>3
<1>5. z \in Nat \ {0} /\ e \in 0 .. z - 1
  BY <1>1, <1>3
<1> HIDE DEF z, e
<1>6. q \div z = d
  BY <1>3, <1>4, <1>5, Quotient
<1>7. QED
  BY <1>2, <1>6 DEF c, d, z

(***************************************************************************)
(* Coordinates.  A chunk has 2^l nodes at level l, and node i of level l   *)
(* covers the pages q with Up(l, q) = i.  All the paths of the code run    *)
(* along the nodes above one page.                                         *)
(***************************************************************************)
Width(l)   == 2 ^ (Depth - l)
Up(l, q)   == q \div Width(l)
InChunk    == 0 .. 2 ^ Depth - 1
At(l)      == 0 .. 2 ^ l - 1
\* Node i of level l in chunk j of its tree, by the number that the code gives it.
N(j, l, i) == j * Slots + (2 ^ l - 1 + i)
\* The node of level l over page q of chunk j.
Over(j, l, q) == N(j, l, Up(l, q))
Twin(i)    == IF i % 2 = 0 THEN i + 1 ELSE i - 1

\* What the assumption says of the constants, MaxChunks being the size tried first.
LEMMA Constants ==
  /\ Depth \in Nat \ {0} /\ MaxTrees \in Nat \ {0}
  /\ ChunkCounts \subseteq Nat \ {0, 1}
  /\ MaxChunks \in ChunkCounts /\ \A d \in ChunkCounts : d <= MaxChunks
BY TreePoolAssumption DEF TreePoolAssumption, MaxChunks

\* A node of level l has Width (l) pages, and 2 ^ l of them fill a chunk.
LEMMA Widths ==
  ASSUME NEW l \in Levels
  PROVE  /\ l \in Nat /\ l <= Depth /\ 2 ^ l \in Nat \ {0} /\ 2 ^ Depth \in Nat \ {0}
         /\ Width(l) \in Nat \ {0} /\ 2 ^ Depth = 2 ^ l * Width(l) /\ 2 ^ l <= 2 ^ Depth
         /\ l < Depth => Width(l) = 2 * Width(l + 1)
<1>1. l \in Nat /\ Depth \in Nat /\ l <= Depth
  BY Constants DEF Levels
<1>2. l < Depth => Width(l) = 2 * Width(l + 1)
  <2> DEFINE d == Depth - (l + 1)
  <2>1. SUFFICES ASSUME l < Depth
                 PROVE  Width(l) = 2 * Width(l + 1)
    OBVIOUS
  <2>2. d \in Nat /\ d + 1 = Depth - l
    BY <1>1, <2>1
  <2> HIDE DEF d
  <2>3. 2 ^ (d + 1) = 2 * 2 ^ d
    BY <2>2, TwoToThe
  <2>4. QED
    BY <2>2, <2>3 DEF Width, d
<1>3. QED
  BY <1>1, <1>2, PowersGrow DEF Width

\* The node over a page is one of its level: the root at level 0, the page itself at the last.
LEMMA UpAt ==
  ASSUME NEW l \in Levels, NEW q \in InChunk
  PROVE  Up(l, q) \in At(l) /\ Up(0, q) = 0 /\ Up(Depth, q) = q
<1>1. /\ q \in Nat /\ q < 2 ^ Depth /\ 2 ^ Depth = 2 ^ l * Width(l)
      /\ 2 ^ l \in Nat \ {0} /\ Width(l) \in Nat \ {0} /\ 2 ^ Depth \in Nat \ {0}
  BY Widths DEF InChunk
<1> DEFINE w == Width(l)
           u == q \div w
           r == q % w
           p == 2 ^ l
<1>2. u \in Int /\ r \in 0 .. w - 1 /\ q = w * u + r
  BY <1>1, Division
<1>3. u \in Nat
  BY <1>1, Nested
<1>4. u < p
  <2> HIDE DEF w, u, r, p
  <2>1. SUFFICES ASSUME u >= p
                 PROVE  FALSE
    BY <1>1, <1>3 DEF p
  <2>2. w * u >= w * p /\ w * p = p * w
    BY <1>1, <1>3, <2>1 DEF w, p
  <2>3. QED
    BY <1>1, <1>2, <2>2 DEF w, p
<1>5. Up(l, q) \in At(l)
  BY <1>1, <1>3, <1>4 DEF Up, At
<1>6. Up(0, q) = 0
  <2>1. Width(0) = 2 ^ Depth
    BY Constants DEF Width
  <2>2. q \div 2 ^ Depth = 0
    <3> DEFINE z == 2 ^ Depth
    <3>1. z \in Nat \ {0} /\ q \in 0 .. z - 1
      BY <1>1
    <3> DEFINE c == 0
    <3>2. q = z * c + q /\ c \in Int
      BY <1>1, <3>1
    <3> HIDE DEF z, c
    <3>4. q \div z = c
      BY ZenonT(40), <1>1, <3>1, <3>2, Quotient
    <3>3. q \div z = 0
      BY <3>4 DEF c
    <3>5. QED
      BY <3>3 DEF z
  <2>3. QED
    BY <2>1, <2>2 DEF Up
<1>7. Up(Depth, q) = q
  BY <1>1, Constants DEF Width, Up
<1>8. QED
  BY <1>5, <1>6, <1>7

\* The node k levels up.
LEMMA UpUp ==
  ASSUME NEW l \in Levels, NEW k \in 0 .. l, NEW q \in InChunk
  PROVE  Up(l - k, q) = Up(l, q) \div 2 ^ k
<1>1. l \in Nat /\ k \in Nat /\ Depth \in Nat /\ l <= Depth /\ k <= l /\ q \in Nat
  BY Widths, Constants DEF InChunk
<1> DEFINE a == Depth - l
           x == 2 ^ a
           y == 2 ^ k
<1>2. a \in Nat /\ a + k = Depth - (l - k)
  BY <1>1
<1> HIDE DEF a
<1>3. x \in Nat \ {0} /\ y \in Nat \ {0} /\ 2 ^ (a + k) = x * y
  <2>1. x \in Nat /\ x >= 1 /\ y \in Nat /\ y >= 1
    BY <1>1, <1>2, TwoToThe
  <2>2. 2 ^ (a + k) = x * y
    BY <1>1, <1>2, PowerSum
  <2> HIDE DEF x, y
  <2>3. QED
    BY <2>1, <2>2
<1>4. (q \div x) \div y = q \div (x * y)
  BY <1>1, <1>3, Nested
<1>5. QED
  BY <1>2, <1>3, <1>4 DEF Up, Width, a

\* Two pages below one node are below the same nodes further up.
LEMMA SameAbove ==
  ASSUME NEW l \in Levels, NEW m \in 0 .. l, NEW q \in InChunk, NEW r \in InChunk,
         Up(l, q) = Up(l, r)
  PROVE  Up(m, q) = Up(m, r)
<1> DEFINE k == l - m
<1>1. k \in 0 .. l /\ m = l - k
  BY DEF Levels
<1> HIDE DEF k
<1>2. QED
  BY <1>1, UpUp

\* A parent has two children, twins of each other.
LEMMA Twins ==
  ASSUME NEW l \in Levels \ {0}, NEW i \in At(l)
  PROVE  /\ Twin(i) \in At(l) /\ Twin(i) # i /\ Twin(i) \div 2 = i \div 2 /\ Twin(Twin(i)) = i
         /\ \A x \in At(l) : x \div 2 = i \div 2 => x = i \/ x = Twin(i)
         /\ i \div 2 \in At(l - 1)
<1> DEFINE h == 2 ^ (l - 1)
<1>1. 2 ^ l = 2 * h /\ h \in Nat
  <2> DEFINE d == l - 1
  <2>1. d \in Nat /\ d + 1 = l
    BY DEF Levels
  <2> HIDE DEF d
  <2>2. 2 ^ (d + 1) = 2 * 2 ^ d /\ 2 ^ d \in Nat
    BY <2>1, TwoToThe
  <2>3. QED
    BY <2>1, <2>2 DEF d
<1> HIDE DEF h
<1>2. At(l) = 0 .. 2 * h - 1
  BY <1>1 DEF At
<1>3. At(l - 1) = 0 .. h - 1
  BY DEF At, h
<1> DEFINE c == i \div 2
           b == i % 2
<1>4. c \in 0 .. h - 1 /\ b \in 0 .. 1 /\ i = 2 * c + b
  BY <1>1, <1>2
<1>5. \A x \in At(l) : x \div 2 = c => x = 2 * c \/ x = 2 * c + 1
  BY <1>2
<1>6. Twin(i) = IF b = 0 THEN 2 * c + 1 ELSE 2 * c
  BY <1>4 DEF Twin
<1> HIDE DEF b, c
<1>7. 2 * c + 1 \in At(l) /\ 2 * c \in At(l) /\ (2 * c + 1) \div 2 = c /\ (2 * c) \div 2 = c
  BY <1>1, <1>2, <1>4
<1>8. Twin(2 * c + 1) = 2 * c /\ Twin(2 * c) = 2 * c + 1
  BY <1>1, <1>4 DEF Twin
<1>9. b = 0 \/ b = 1
  BY <1>4
<1>10. i \div 2 = c
  BY DEF c
<1>11. c \in At(l - 1)
  BY <1>3, <1>4
<1>12. CASE b = 0
  <2>1. i = 2 * c /\ Twin(i) = 2 * c + 1
    BY <1>4, <1>6, <1>12
  <2>2. Twin(i) # i
    BY <1>4, <2>1
  <2>3. QED
    BY <1>5, <1>7, <1>8, <1>10, <1>11, <2>1, <2>2
<1>13. CASE b = 1
  <2>1. i = 2 * c + 1 /\ Twin(i) = 2 * c
    BY <1>4, <1>6, <1>13
  <2>2. Twin(i) # i
    BY <1>4, <2>1
  <2>3. QED
    BY <1>5, <1>7, <1>8, <1>10, <1>11, <2>1, <2>2
<1>14. QED
  BY <1>9, <1>12, <1>13

\* Two pages that part below a node go to its two children.
LEMMA Forks ==
  ASSUME NEW l \in Levels \ {0}, NEW q \in InChunk, NEW r \in InChunk,
         Up(l - 1, q) = Up(l - 1, r), Up(l, q) # Up(l, r)
  PROVE  Up(l, r) = Twin(Up(l, q))
<1>1. l \in Levels /\ 1 \in 0 .. l /\ 2 ^ 1 = 2
  BY DEF Levels
<1>2. Up(l - 1, q) = Up(l, q) \div 2 /\ Up(l - 1, r) = Up(l, r) \div 2
  BY <1>1, UpUp
<1>3. QED
  BY <1>2, Twins, UpAt

\* Pages below twins are below their parent.
LEMMA TwinAbove ==
  ASSUME NEW l \in Levels \ {0}, NEW q \in InChunk, NEW r \in InChunk,
         Up(l, r) = Twin(Up(l, q))
  PROVE  Up(l - 1, q) = Up(l - 1, r)
<1>1. l \in Levels /\ 1 \in 0 .. l /\ 2 ^ 1 = 2
  BY DEF Levels
<1>2. Up(l - 1, q) = Up(l, q) \div 2 /\ Up(l - 1, r) = Up(l, r) \div 2
  BY <1>1, UpUp
<1>3. QED
  BY <1>2, Twins, UpAt

\* The first page of a node.
LEMMA FirstPage ==
  ASSUME NEW l \in Levels, NEW i \in At(l)
  PROVE  /\ i * Width(l) \in InChunk /\ Up(l, i * Width(l)) = i
         /\ \A k \in 0 .. Depth - l : Up(l + k, i * Width(l)) = i * 2 ^ k
<1> DEFINE w == Width(l)
           p == 2 ^ l
           q == i * w
<1>1. w \in Nat \ {0} /\ p \in Nat \ {0} /\ 2 ^ Depth = p * w /\ l \in Nat /\ l <= Depth
  BY Widths
<1>2. i \in 0 .. p - 1
  BY DEF At
<1> HIDE DEF w, p
<1>3. q \in Nat /\ q < p * w
  BY <1>1, <1>2
<1>4. q \in InChunk
  BY <1>1, <1>3 DEF InChunk
<1>5. ASSUME NEW k \in 0 .. Depth - l
      PROVE  Up(l + k, q) = i * 2 ^ k
  <2> DEFINE y == 2 ^ k
             v == Width(l + k)
             c == i * y
  <2>1. k \in Nat /\ Depth - l \in Nat /\ Depth - l - k = Depth - (l + k)
    BY <1>1, Constants
  <2>2. y \in Nat \ {0} /\ v \in Nat \ {0} /\ w = y * v
    BY <2>1, PowersGrow DEF w, Width
  <2> HIDE DEF y, v
  <2>3. q = v * c + 0 /\ c \in Nat
    BY <1>1, <1>2, <2>2
  <2> HIDE DEF c, q
  <2>4. q \div v = c
    BY <1>3, <2>2, <2>3, Quotient
  <2>5. QED
    BY <2>4 DEF Up, v, c, y
<1>6. Up(l, q) = i
  <2>1. 0 \in 0 .. Depth - l /\ l + 0 = l /\ i * 2 ^ 0 = i
    BY <1>1, <1>2, Constants
  <2> HIDE DEF q
  <2>2. QED
    BY <1>5, <2>1
<1>7. QED
  BY <1>4, <1>5, <1>6 DEF w

(***************************************************************************)
(* Node numbers.                                                           *)
(***************************************************************************)
\* A chunk of 2 ^ Depth pages has twice as many slots of flags.
LEMMA SlotsAre == Slots = 2 * 2 ^ Depth /\ 2 ^ Depth \in Nat \ {0} /\ Slots \in Nat \ {0}
<1>1. Depth \in Nat
  BY Constants
<1>2. 2 ^ (Depth + 1) = 2 * 2 ^ Depth /\ 2 ^ Depth \in Nat /\ 2 ^ Depth >= 1
  BY <1>1, TwoToThe
<1> DEFINE h == 2 ^ Depth
<1>3. Slots = 2 * h /\ h \in Nat /\ h >= 1
  BY <1>2 DEF Slots
<1> HIDE DEF h
<1>4. Slots \in Nat \ {0} /\ h \in Nat \ {0}
  BY <1>3
<1>5. QED
  BY <1>3, <1>4 DEF h

\* The chunk and the place in the chunk that a node's number tells.
LEMMA NumberIs ==
  ASSUME NEW j \in Nat, NEW l \in Levels, NEW i \in At(l)
  PROVE  /\ N(j, l, i) \in Nat /\ Local(N(j, l, i)) = 2 ^ l - 1 + i
         /\ N(j, l, i) \div Slots = j /\ Base(N(j, l, i)) = j * Slots
         /\ Local(N(j, l, i)) \in 0 .. Slots - 2 /\ 2 ^ l + i < 2 ^ (l + 1)
<1> DEFINE p == 2 ^ l
           h == 2 ^ Depth
           r == p - 1 + i
           s == Slots
           n == N(j, l, i)
<1>1. p \in Nat \ {0} /\ p <= h /\ h \in Nat \ {0} /\ s = 2 * h /\ l \in Nat /\ i \in 0 .. p - 1
  BY Widths, SlotsAre DEF At
<1>2. 2 ^ (l + 1) = 2 * p
  BY <1>1, TwoToThe
<1>3. n = j * s + r
  BY DEF N
<1> HIDE DEF p, h, s, n
<1>4. r \in 0 .. s - 2 /\ r \in 0 .. s - 1 /\ p + i < 2 * p
  BY <1>1
<1> HIDE DEF r
<1>5. s \in Nat \ {0} /\ j * s \in Nat /\ j * s = s * j
  BY <1>1
<1>6. n \in Nat /\ n = s * j + r
  BY <1>3, <1>4, <1>5
<1>7. n % s = r /\ n \div s = j
  BY <1>4, <1>5, <1>6, Quotient
<1>8. n - (n % s) = j * s
  <2> DEFINE a == j * s
             b == n % s
  <2>1. n = a + r /\ a \in Int /\ r \in Int /\ b = r
    BY <1>3, <1>4, <1>5, <1>7
  <2> HIDE DEF a, b
  <2>2. n - b = a
    BY <2>1
  <2>3. QED
    BY <2>2 DEF a, b
<1>9. Local(n) = r /\ Base(n) = j * s
  BY <1>7, <1>8 DEF Local, Base, s
<1>10. QED
  BY <1>2, <1>4, <1>6, <1>7, <1>9 DEF n, s, r, p

\* A number lies between two successive powers of two only.
LEMMA OneLevel ==
  ASSUME NEW x \in Nat, NEW l \in Levels, 2 ^ l <= x, x < 2 ^ (l + 1),
         NEW m \in Levels, 2 ^ m <= x, x < 2 ^ (m + 1)
  PROVE  l = m
<1>1. l \in Nat /\ m \in Nat
  BY Widths
<1>2. ~(l < m)
  <2>1. SUFFICES ASSUME l < m
                 PROVE  FALSE
    OBVIOUS
  <2>2. l + 1 \in Nat /\ l + 1 <= m
    BY <1>1, <2>1
  <2>3. 2 ^ (l + 1) <= 2 ^ m /\ 2 ^ (l + 1) \in Nat /\ 2 ^ m \in Nat
    BY <1>1, <2>2, PowersGrow
  <2>4. QED
    BY <2>3
<1>3. ~(m < l)
  <2>1. SUFFICES ASSUME m < l
                 PROVE  FALSE
    OBVIOUS
  <2>2. m + 1 \in Nat /\ m + 1 <= l
    BY <1>1, <2>1
  <2>3. 2 ^ (m + 1) <= 2 ^ l /\ 2 ^ (m + 1) \in Nat /\ 2 ^ l \in Nat
    BY <1>1, <2>2, PowersGrow
  <2>4. QED
    BY <2>3
<1>4. QED
  BY <1>1, <1>2, <1>3

\* Level finds the level of a node in its number.
LEMMA LevelIs ==
  ASSUME NEW j \in Nat, NEW l \in Levels, NEW i \in At(l)
  PROVE  Level(N(j, l, i)) = l
<1> DEFINE x == Local(N(j, l, i)) + 1
           Fits(m) == 2 ^ m <= x /\ x < 2 ^ (m + 1)
<1>1. x \in Nat /\ x = 2 ^ l + i /\ i >= 0 /\ Fits(l)
  BY NumberIs, Widths DEF At
<1>2. Level(N(j, l, i)) = CHOOSE m \in Levels : Fits(m)
  BY DEF Level
<1> HIDE DEF x
<1>3. \A m \in Levels : Fits(m) => m = l
  BY <1>1, OneLevel
<1> HIDE DEF Fits
<1>4. QED
  BY <1>1, <1>2, <1>3

\* Two nodes have two numbers.
LEMMA OneNumber ==
  ASSUME NEW j \in Nat, NEW l \in Levels, NEW i \in At(l),
         NEW k \in Nat, NEW m \in Levels, NEW h \in At(m), N(j, l, i) = N(k, m, h)
  PROVE  j = k /\ l = m /\ i = h
<1>1. j = k
  BY NumberIs
<1>2. l = m
  BY LevelIs
<1>3. 2 ^ l - 1 + i = 2 ^ l - 1 + h
  BY <1>2, NumberIs
<1>4. 2 ^ l \in Nat /\ i \in Int /\ h \in Int
  BY <1>2, Widths DEF At
<1>5. QED
  BY <1>1, <1>2, <1>3, <1>4

\* Every slot but the last of a chunk is a node.
LEMMA NumberOf ==
  ASSUME NEW n \in Nat, Local(n) # Slots - 1
  PROVE  \E j \in Nat, l \in Levels : \E i \in At(l) : n = N(j, l, i)
<1> DEFINE s == Slots
           j == n \div s
           r == n % s
           x == r + 1
           Over2 == {m \in Nat : x < 2 ^ (m + 1)}
<1>1. s \in Nat \ {0} /\ Slots = 2 * 2 ^ Depth /\ 2 ^ Depth \in Nat /\ Depth \in Nat
  BY SlotsAre, Constants
<1>2. j \in Int /\ r \in 0 .. s - 1 /\ n = s * j + r
  BY <1>1, Division
<1>3. j \in Nat
  BY <1>1, Nested
<1>4. r # s - 1
  BY DEF Local
<1>5. x \in Nat /\ x >= 1 /\ x < 2 ^ (Depth + 1)
  <2>1. s = 2 ^ (Depth + 1)
    BY DEF Slots
  <2> HIDE DEF s, r
  <2>2. QED
    BY <1>1, <1>2, <1>4, <2>1
<1> HIDE DEF s, j, r, x
<1>6. Depth \in Over2
  BY <1>1, <1>5
<1>7. PICK l \in Over2 : \A m \in Over2 : l <= m
  BY <1>6, Least
<1>8. l \in Levels
  BY <1>1, <1>6, <1>7 DEF Levels
<1>9. 2 ^ l <= x
  <2>1. CASE l = 0
    BY <1>5, <2>1
  <2>2. CASE l # 0
    <3> DEFINE d == l - 1
    <3>1. d \in Nat /\ d < l /\ d + 1 = l
      BY <1>7, <2>2
    <3> HIDE DEF d
    <3>2. d \notin Over2
      BY <1>7, <3>1
    <3>3. ~(x < 2 ^ l) /\ 2 ^ l \in Nat
      BY <1>8, <3>1, <3>2, Widths
    <3>4. QED
      BY <1>5, <3>3
  <2>3. QED
    BY <2>1, <2>2
<1>10. 2 ^ (l + 1) = 2 * 2 ^ l /\ 2 ^ l \in Nat /\ x < 2 ^ (l + 1)
  BY <1>7, TwoToThe
<1> DEFINE i == x - 2 ^ l
<1>11. i \in At(l)
  BY <1>5, <1>9, <1>10 DEF At
<1>12. n = N(j, l, i)
  BY <1>1, <1>2, <1>3, <1>5, <1>10 DEF N, s, x
<1> HIDE DEF i
<1>13. QED
  BY <1>3, <1>8, <1>11, <1>12

\* A node's address is its first page.
LEMMA AddressIs ==
  ASSUME NEW t, NEW j \in Nat, NEW l \in Levels, NEW i \in At(l)
  PROVE  Address(<<t, N(j, l, i)>>, l) = <<t, j * 2 ^ Depth + i * Width(l)>>
<1> DEFINE n == N(j, l, i)
<1>1. n \div Slots = j /\ Local(n) = 2 ^ l - 1 + i
  BY NumberIs
<1>2. 2 ^ l \in Nat /\ i \in Int
  BY Widths DEF At
<1> HIDE DEF n
<1>3. Local(n) - 2 ^ l + 1 = i
  BY <1>1, <1>2
<1>4. Address(<<t, n>>, l) = <<t, (n \div Slots) * 2 ^ Depth + (Local(n) - 2 ^ l + 1) * 2 ^ (Depth - l)>>
  BY DEF Address
<1>5. QED
  BY <1>1, <1>3, <1>4 DEF Width, n

\* The sibling of a node is its twin.
LEMMA SiblingIs ==
  ASSUME NEW j \in Nat, NEW l \in Levels \ {0}, NEW i \in At(l)
  PROVE  Sibling(N(j, l, i)) = N(j, l, Twin(i))
<1> DEFINE h == 2 ^ (l - 1)
           a == j * 2 ^ Depth
           n == N(j, l, i)
<1>1. 2 ^ l = 2 * h /\ h \in Nat
  <2> DEFINE d == l - 1
  <2>1. d \in Nat /\ d + 1 = l
    BY DEF Levels
  <2> HIDE DEF d
  <2>2. 2 ^ (d + 1) = 2 * 2 ^ d /\ 2 ^ d \in Nat
    BY <2>1, TwoToThe
  <2>3. QED
    BY <2>1, <2>2 DEF d
<1>2. j * Slots = 2 * a /\ a \in Nat
  <2> DEFINE z == 2 ^ Depth
  <2>1. Slots = 2 * z /\ z \in Nat
    BY SlotsAre
  <2> HIDE DEF z
  <2>2. j * (2 * z) = 2 * (j * z) /\ j * z \in Nat
    BY <2>1
  <2>3. QED
    BY <2>1, <2>2 DEF z
<1>3. i \in Nat /\ Twin(i) \in Nat /\ Twin(i) = IF i % 2 = 0 THEN i + 1 ELSE i - 1
  BY Twins DEF At, Twin
<1>4. n = 2 * a + (2 * h - 1 + i) /\ N(j, l, Twin(i)) = 2 * a + (2 * h - 1 + Twin(i))
  BY <1>1, <1>2 DEF N
<1> HIDE DEF h, a, n
<1>5. CASE i % 2 = 0
  BY <1>1, <1>2, <1>3, <1>4, <1>5 DEF Sibling, n
<1>6. CASE i % 2 # 0
  BY <1>1, <1>2, <1>3, <1>4, <1>6 DEF Sibling, n
<1>7. QED
  BY <1>5, <1>6

\* The parent, k times: the node k levels up over the same page.
LEMMA AncestorIs ==
  ASSUME NEW j \in Nat, NEW l \in Levels, NEW q \in InChunk, NEW k \in 0 .. l
  PROVE  Ancestor(Over(j, l, q), k) = Over(j, l - k, q)
<1> DEFINE i == Up(l, q)
           n == N(j, l, i)
           y == 2 ^ k
           p == 2 ^ (l - k)
           c == i \div y
           r == i % y
<1>1. i \in At(l) /\ Up(l - k, q) = c
  BY UpAt, UpUp
<1>2. l \in Nat /\ k \in Nat /\ k <= l /\ 2 ^ l = y * p /\ y \in Nat \ {0} /\ p \in Nat \ {0}
  BY Widths, PowersGrow
<1>3. Local(n) = 2 ^ l - 1 + i /\ Base(n) = j * Slots /\ i \in Nat
  BY <1>1, NumberIs DEF At
<1>4. c \in Int /\ r \in 0 .. y - 1 /\ i = y * c + r
  BY <1>2, <1>3, Division
<1> HIDE DEF y, p, i, c, r
<1>5. Local(n) + 1 = y * (p + c) + r /\ Local(n) + 1 \in Nat
  BY <1>2, <1>3, <1>4
<1> HIDE DEF n
<1>6. (Local(n) + 1) \div y = p + c
  <2> DEFINE x == Local(n) + 1
             d == p + c
  <2>1. x \in Nat /\ d \in Int /\ x = y * d + r
    BY <1>2, <1>4, <1>5
  <2> HIDE DEF x, d
  <2>2. x \div y = d
    BY <1>2, <1>4, <2>1, Quotient
  <2>3. QED
    BY <2>2 DEF x, d
<1>7. Ancestor(n, k) = j * Slots + (p + c) - 1
  BY <1>3, <1>6 DEF Ancestor, y
<1>8. j * Slots + (p + c) - 1 = j * Slots + (p - 1 + c)
  <2> DEFINE a == j * Slots
  <2>1. a \in Int
    BY SlotsAre
  <2> HIDE DEF a
  <2>2. a + (p + c) - 1 = a + (p - 1 + c)
    BY <1>2, <1>4, <2>1
  <2>3. QED
    BY <2>2 DEF a
<1>9. QED
  BY <1>1, <1>7, <1>8 DEF Over, N, n, i, p

\* The left child, k times: the nodes above the first page.
LEMMA DescendantIs ==
  ASSUME NEW j \in Nat, NEW l \in Levels, NEW i \in At(l), NEW k \in 0 .. Depth - l
  PROVE  Descendant(N(j, l, i), k) = Over(j, l + k, i * Width(l))
<1> DEFINE n == N(j, l, i)
           y == 2 ^ k
           p == 2 ^ l
           a == j * Slots
<1>1. Up(l + k, i * Width(l)) = i * y
  BY FirstPage
<1>2. y \in Nat /\ p \in Nat /\ 2 ^ (l + k) = p * y /\ i \in Nat
  <2>1. l \in Nat /\ k \in Nat
    BY Widths, Constants
  <2>2. 2 ^ (l + k) = p * y
    BY <2>1, PowerSum
  <2>3. y \in Nat /\ p \in Nat
    BY <2>1, TwoToThe
  <2> HIDE DEF y
  <2>4. i \in Nat
    BY <2>3 DEF At
  <2>5. QED
    BY <2>2, <2>3, <2>4
<1>3. Local(n) = p - 1 + i /\ Base(n) = a
  BY NumberIs
<1>4. a \in Int
  BY SlotsAre
<1> HIDE DEF n, y, p, a
<1>5. (Local(n) + 1) * y = p * y + i * y
  BY <1>2, <1>3
<1>6. a + (p * y + i * y) - 1 = a + (p * y - 1 + i * y)
  <2> DEFINE b == p * y
             c == i * y
  <2>1. b \in Int /\ c \in Int
    BY <1>2
  <2> HIDE DEF b, c
  <2>2. a + (b + c) - 1 = a + (b - 1 + c)
    BY <1>4, <2>1
  <2>3. QED
    BY <2>2 DEF b, c
<1>7. Descendant(n, k) = a + (p * y + i * y) - 1
  BY <1>3, <1>5 DEF Descendant, y
<1>8. QED
  BY <1>1, <1>2, <1>6, <1>7 DEF Over, N, n, a

\* A node number and its child's, parent's or twin's belong to the same tree.
LEMMA InTree ==
  ASSUME NEW j \in Nat, NEW l \in Levels, NEW i \in At(l), NEW c \in Nat
  PROVE  N(j, l, i) < c * Slots <=> j < c
<1> DEFINE s == Slots
           n == N(j, l, i)
           r == Local(n)
<1>1. s \in Nat \ {0} /\ n \in Nat /\ r \in 0 .. s - 1 /\ n = s * j + r
  <2>1. s \in Nat \ {0} /\ n \in Nat /\ n \div s = j /\ r = n % s
    BY NumberIs, SlotsAre DEF Local
  <2> HIDE DEF s, n, r
  <2>2. n \div s \in Int /\ n % s \in 0 .. s - 1 /\ n = s * (n \div s) + (n % s)
    BY <2>1, Division
  <2>3. QED
    BY <2>1, <2>2
<1> HIDE DEF s, n, r
<1>2. j < c => n < c * s
  BY <1>1
<1>3. j >= c => n >= c * s
  BY <1>1
<1>4. n \in Int /\ c * s \in Int
  BY <1>1
<1>5. QED
  BY <1>2, <1>3, <1>4 DEF n, s

(***************************************************************************)
(* The flags F of a tree of c chunks.  Every page has one leaf above it.   *)
(***************************************************************************)
\* What the flag of a node holds.
FlagType == [depth : Levels, free : BOOLEAN, inner : BOOLEAN]
\* A leaf is a block that may be handed out or is: nothing below it counts.
Leaf(F, n) == F[n].free \/ ~F[n].inner

\* Over every page exactly one node is a leaf.
Covered(F, c) == \A j \in 0 .. c - 1, q \in InChunk :
                   \E l \in Levels : \A m \in Levels : Leaf(F, Over(j, m, q)) <=> m = l
Depths(F, c)  == \A j \in 0 .. c - 1, l \in Levels : \A i \in At(l) : F[N(j, l, i)].depth = l
Merged(F, c)  == \A j \in 0 .. c - 1, l \in Levels \ {0} : \A i \in At(l) :
                   ~(F[N(j, l, i)].free /\ F[N(j, l, Twin(i))].free)

\* What the flags F of a tree of c chunks always are.
Tree(F, c) == F \in [Nodes -> FlagType] /\ Covered(F, c) /\ Depths(F, c) /\ Merged(F, c)

\* the nodes a division or a coalescing changes: those above page q of chunk j from
\* level a to level d, and the twins of all but the first
Path(j, q, a, d) == {Over(j, m, q) : m \in a .. d} \cup {N(j, m, Twin(Up(m, q))) : m \in a + 1 .. d}

\* From the block over page q at level a down to level d: every node of the way is inner, its
\* last is in use, and the twins left behind are free.
Divided(G, F, j, q, a, d) ==
  /\ G \in [Nodes -> FlagType] /\ \A n \in Nodes \ Path(j, q, a, d) : G[n] = F[n]
  /\ \A m \in a .. d - 1 : G[Over(j, m, q)] = Flag(m, FALSE, TRUE)
  /\ G[Over(j, d, q)] = InUseFlag(d)
  /\ \A m \in a + 1 .. d : G[N(j, m, Twin(Up(m, q)))] = Flag(m, TRUE, FALSE)

\* The way back: the nodes merged and their twins are inner, and the node of level a is free.
Coalescing(G, F, j, q, a, d) ==
  /\ G \in [Nodes -> FlagType] /\ \A n \in Nodes \ Path(j, q, a, d) : G[n] = F[n]
  /\ \A m \in a + 1 .. d : /\ G[Over(j, m, q)] = Flag(m, FALSE, TRUE)
                           /\ G[N(j, m, Twin(Up(m, q)))] = Flag(m, FALSE, TRUE)
  /\ G[Over(j, a, q)] = [F[Over(j, a, q)] EXCEPT !.free = TRUE]

\* A bounded set of numbers has a greatest one.
LEMMA Greatest ==
  ASSUME NEW b \in Nat, NEW S, S \subseteq 0 .. b, S # {}
  PROVE  \E p \in S : \A q \in S : q <= p
<1> DEFINE T == {b - x : x \in S}
<1>1. T \subseteq Nat /\ T # {}
  <2>1. \A x \in S : b - x \in Nat
    OBVIOUS
  <2>2. QED
    BY <2>1
<1> HIDE DEF T
<1>2. PICK m \in T : \A x \in T : m <= x
  BY <1>1, Least
<1>3. PICK p \in S : m = b - p
  BY DEF T
<1>4. ASSUME NEW q \in S
      PROVE  q <= p
  BY <1>2, <1>3 DEF T
<1>5. QED
  BY <1>4

\* Where the way to page r leaves the way to page q.
LEMMA Branch ==
  ASSUME NEW a \in Levels, NEW d \in Levels, a <= d,
         NEW q \in InChunk, NEW r \in InChunk, Up(a, r) = Up(a, q)
  PROVE  \E e \in a .. d : /\ \A m \in 0 .. e : Up(m, r) = Up(m, q)
                           /\ e < d => Up(e + 1, r) = Twin(Up(e + 1, q))
                           /\ \A m \in e + 1 .. d : Up(m, r) # Up(m, q)
                           /\ \A m \in e + 2 .. d : Up(m, r) # Twin(Up(m, q))
<1> DEFINE S == {m \in a .. d : Up(m, r) = Up(m, q)}
<1>1. a \in Nat /\ d \in Nat /\ Depth \in Nat /\ d <= Depth
  BY Widths, Constants
<1>2. PICK e \in S : \A m \in S : m <= e
  <2>1. S \subseteq 0 .. d /\ a \in S
    BY <1>1
  <2> HIDE DEF S
  <2>2. QED
    BY <1>1, <2>1, Greatest
<1>3. e \in a .. d /\ Up(e, r) = Up(e, q) /\ e \in Levels
  BY <1>1, <1>2 DEF Levels
<1>4. \A m \in 0 .. e : Up(m, r) = Up(m, q)
  BY <1>3, SameAbove
<1>5. \A m \in e + 1 .. d : Up(m, r) # Up(m, q)
  BY <1>1, <1>2, <1>3
<1>6. ASSUME e < d
      PROVE  Up(e + 1, r) = Twin(Up(e + 1, q))
  <2> DEFINE f == e + 1
  <2>1. f \in Levels \ {0} /\ f - 1 = e /\ f \in e + 1 .. d
    BY <1>1, <1>3, <1>6 DEF Levels
  <2> HIDE DEF f
  <2>2. Up(f - 1, q) = Up(f - 1, r) /\ Up(f, q) # Up(f, r)
    BY <1>3, <1>5, <2>1
  <2>3. QED
    BY <2>1, <2>2, Forks DEF f
<1>7. ASSUME NEW m \in e + 2 .. d
      PROVE  Up(m, r) # Twin(Up(m, q))
  BY <1>1, <1>3, <1>5, TwinAbove DEF Levels
<1>8. QED
  BY <1>3, <1>4, <1>5, <1>6, <1>7

\* The node over a page is determined by its number.
LEMMA OverIs ==
  ASSUME NEW j \in Nat, NEW m \in Levels, NEW q \in InChunk,
         NEW k \in Nat, NEW l \in Levels, NEW i \in At(l), Over(j, m, q) = N(k, l, i)
  PROVE  j = k /\ m = l /\ Up(m, q) = i
<1>1. Up(m, q) \in At(m)
  BY UpAt
<1>2. QED
  BY <1>1, OneNumber DEF Over

\* A node on a path is over its page or a twin of such a node.
LEMMA OnPath ==
  ASSUME NEW j \in Nat, NEW q \in InChunk, NEW a \in Levels, NEW d \in Levels, a <= d,
         NEW k \in Nat, NEW l \in Levels, NEW i \in At(l), N(k, l, i) \in Path(j, q, a, d)
  PROVE  k = j /\ l \in a .. d /\ (i = Up(l, q) \/ (l > a /\ i = Twin(Up(l, q))))
<1>1. a \in Nat /\ d \in Nat /\ d <= Depth /\ Depth \in Nat
  BY Widths, Constants
<1>2. ASSUME NEW m \in a .. d, N(k, l, i) = Over(j, m, q)
      PROVE  k = j /\ l = m /\ i = Up(l, q)
  BY <1>1, <1>2, OverIs DEF Levels
<1>3. ASSUME NEW m \in a + 1 .. d, N(k, l, i) = N(j, m, Twin(Up(m, q)))
      PROVE  k = j /\ l = m /\ i = Twin(Up(l, q))
  BY <1>1, <1>3, UpAt, Twins, OneNumber DEF Levels
<1>4. CASE \E m \in a .. d : N(k, l, i) = Over(j, m, q)
  BY <1>2, <1>4
<1>5. CASE \E m \in a + 1 .. d : N(k, l, i) = N(j, m, Twin(Up(m, q)))
  BY <1>1, <1>3, <1>5
<1>6. QED
  BY <1>4, <1>5 DEF Path

\* What is on the path is below the node at level a.
LEMMA PathBelow ==
  ASSUME NEW j \in Nat, NEW q \in InChunk, NEW a \in Levels, NEW d \in Levels, a <= d,
         NEW k \in Nat, NEW m \in Levels, NEW r \in InChunk, Over(k, m, r) \in Path(j, q, a, d)
  PROVE  k = j /\ m \in a .. d /\ Up(a, r) = Up(a, q)
         /\ (Up(m, r) = Up(m, q) \/ (m > a /\ Up(m, r) = Twin(Up(m, q))))
<1>1. /\ k = j /\ m \in a .. d
      /\ Up(m, r) = Up(m, q) \/ (m > a /\ Up(m, r) = Twin(Up(m, q)))
  BY UpAt, OnPath DEF Over
<1>2. a \in Nat /\ m \in Nat /\ a \in 0 .. m
  BY <1>1, Widths
<1>3. CASE Up(m, r) = Up(m, q)
  BY <1>1, <1>2, <1>3, SameAbove
<1>4. CASE m > a /\ Up(m, r) = Twin(Up(m, q))
  <2> DEFINE l == m - 1
  <2>1. m \in Levels \ {0} /\ l \in Levels /\ a \in 0 .. l
    BY <1>1, <1>2, <1>4, Constants DEF Levels
  <2>2. Up(l, q) = Up(l, r)
    BY <1>4, <2>1, TwinAbove
  <2> HIDE DEF l
  <2>3. QED
    BY <1>1, <2>1, <2>2, <1>4, SameAbove
<1>5. QED
  BY <1>1, <1>3, <1>4

\* The nodes of a tree have a place among its flags.
LEMMA InNodes ==
  ASSUME NEW c \in 0 .. MaxChunks, NEW j \in 0 .. c - 1, NEW l \in Levels, NEW i \in At(l)
  PROVE  N(j, l, i) \in Nodes /\ j \in Nat
<1>1. MaxChunks \in Nat /\ j \in Nat /\ j < MaxChunks
  BY Constants
<1>2. N(j, l, i) < MaxChunks * Slots /\ N(j, l, i) \in Nat
  BY <1>1, InTree, NumberIs
<1>3. MaxChunks * Slots \in Int
  BY <1>1, SlotsAre
<1>4. QED
  BY <1>1, <1>2, <1>3 DEF Nodes

\* The levels of a path, and the nodes it is made of.
LEMMA PathNodes ==
  ASSUME NEW c \in 0 .. MaxChunks, NEW j \in 0 .. c - 1, NEW q \in InChunk,
         NEW a \in Levels, NEW d \in Levels, a <= d
  PROVE  /\ \A m \in a .. d : m \in Levels /\ Up(m, q) \in At(m) /\ Over(j, m, q) \in Nodes
         /\ \A m \in a + 1 .. d : /\ m \in Levels \ {0} /\ Twin(Up(m, q)) \in At(m)
                                  /\ N(j, m, Twin(Up(m, q))) \in Nodes
<1>1. a \in Nat /\ d \in Nat /\ d <= Depth /\ Depth \in Nat
  BY Widths, Constants
<1>2. ASSUME NEW m \in a .. d
      PROVE  m \in Levels /\ Up(m, q) \in At(m) /\ Over(j, m, q) \in Nodes
  BY <1>1, UpAt, InNodes DEF Levels, Over
<1>3. ASSUME NEW m \in a + 1 .. d
      PROVE  /\ m \in Levels \ {0} /\ Twin(Up(m, q)) \in At(m)
             /\ N(j, m, Twin(Up(m, q))) \in Nodes
  BY <1>1, <1>2, Twins, InNodes DEF Levels
<1>4. QED
  BY <1>2, <1>3

\* A chunk that changes along a path only keeps the leaves over other pages.
LEMMA OffPath ==
  ASSUME NEW c \in 0 .. MaxChunks, NEW j \in 0 .. c - 1, NEW q \in InChunk,
         NEW a \in Levels, NEW d \in Levels, a <= d, NEW F, NEW G,
         \A n \in Nodes \ Path(j, q, a, d) : G[n] = F[n],
         NEW k \in 0 .. c - 1, NEW r \in InChunk, k # j \/ Up(a, r) # Up(a, q),
         NEW m \in Levels
  PROVE  Leaf(G, Over(k, m, r)) <=> Leaf(F, Over(k, m, r))
<1>1. Over(k, m, r) \in Nodes /\ k \in Nat /\ j \in Nat
  BY UpAt, InNodes DEF Over
<1>2. Over(k, m, r) \notin Path(j, q, a, d)
  BY <1>1, PathBelow
<1>3. QED
  BY <1>1, <1>2 DEF Leaf

\* A division keeps exactly one leaf over every page.
LEMMA DividedCovers ==
  ASSUME NEW c \in 0 .. MaxChunks, NEW j \in 0 .. c - 1, NEW q \in InChunk,
         NEW a \in Levels, NEW d \in Levels, a <= d, NEW F, NEW G,
         Covered(F, c), Leaf(F, Over(j, a, q)), Divided(G, F, j, q, a, d)
  PROVE  Covered(G, c)
<1>1. SUFFICES ASSUME NEW k \in 0 .. c - 1, NEW r \in InChunk
               PROVE  \E l \in Levels : \A m \in Levels : Leaf(G, Over(k, m, r)) <=> m = l
  BY DEF Covered
<1>2. PICK l \in Levels : \A m \in Levels : Leaf(F, Over(k, m, r)) <=> m = l
  BY DEF Covered
<1>3. a \in Nat /\ d \in Nat /\ d <= Depth /\ Depth \in Nat /\ j \in Nat /\ k \in Nat
  BY Widths, Constants
<1>4. CASE k # j \/ Up(a, r) # Up(a, q)
  <2>1. \A m \in Levels : Leaf(G, Over(k, m, r)) <=> Leaf(F, Over(k, m, r))
    BY <1>4, OffPath DEF Divided
  <2>2. QED
    BY <1>2, <2>1
<1>5. CASE k = j /\ Up(a, r) = Up(a, q)
  <2>1. l = a
    BY <1>2, <1>5 DEF Over
  <2>2. PICK e \in a .. d : /\ \A m \in 0 .. e : Up(m, r) = Up(m, q)
                            /\ e < d => Up(e + 1, r) = Twin(Up(e + 1, q))
                            /\ \A m \in e + 1 .. d : Up(m, r) # Up(m, q)
                            /\ \A m \in e + 2 .. d : Up(m, r) # Twin(Up(m, q))
    BY <1>5, Branch
  <2>3. ASSUME NEW m \in Levels, m \notin a .. d
        PROVE  ~Leaf(G, Over(k, m, r))
    <3>1. Over(k, m, r) \in Nodes
      BY UpAt, InNodes DEF Over
    <3>2. Over(k, m, r) \notin Path(j, q, a, d)
      BY <1>3, <2>3, PathBelow
    <3>3. m # a
      BY <1>3, <2>3
    <3>4. QED
      BY <1>2, <2>1, <3>1, <3>2, <3>3 DEF Divided, Leaf
  <2>4. ASSUME NEW m \in a .. e, m < d
        PROVE  ~Leaf(G, Over(k, m, r))
    <3>1. Over(k, m, r) = Over(j, m, q) /\ m \in a .. d - 1
      BY <1>3, <1>5, <2>2, <2>4 DEF Over
    <3>2. G[Over(j, m, q)] = Flag(m, FALSE, TRUE)
      BY <3>1 DEF Divided
    <3>3. QED
      BY <3>1, <3>2 DEF Leaf, Flag
  <2>5. ASSUME NEW m \in e + 2 .. d
        PROVE  ~Leaf(G, Over(k, m, r))
    <3>1. m \in Levels /\ m \in e + 1 .. d /\ m # a
      BY <1>3, <2>2 DEF Levels
    <3>2. Over(k, m, r) \notin Path(j, q, a, d)
      BY <1>3, <2>2, <3>1, PathBelow
    <3>3. Over(k, m, r) \in Nodes
      BY <3>1, UpAt, InNodes DEF Over
    <3>4. QED
      BY <1>2, <2>1, <3>1, <3>2, <3>3 DEF Divided, Leaf
  <2>6. CASE e = d
    <3>1. Over(k, d, r) = Over(j, d, q)
      BY <1>3, <1>5, <2>2, <2>6 DEF Over
    <3>2. Leaf(G, Over(k, d, r))
      BY <3>1 DEF Divided, Leaf, InUseFlag, Flag
    <3>3. \A m \in Levels : m # d => ~Leaf(G, Over(k, m, r))
      BY <1>3, <2>3, <2>4, <2>6 DEF Levels
    <3>4. QED
      BY <3>2, <3>3
  <2>7. CASE e < d
    <3> DEFINE f == e + 1
    <3>1. f \in Levels /\ f \in a + 1 .. d
      BY <1>3, <2>7 DEF Levels
    <3>2. Over(k, f, r) = N(j, f, Twin(Up(f, q)))
      BY <1>5, <2>2, <2>7 DEF Over
    <3>3. Leaf(G, Over(k, f, r))
      <4> HIDE DEF f
      <4>1. G[N(j, f, Twin(Up(f, q)))] = Flag(f, TRUE, FALSE)
        BY <3>1 DEF Divided
      <4>2. QED
        BY <3>2, <4>1 DEF Leaf, Flag
    <3>4. \A m \in Levels : m # f => m \notin a .. d \/ (m \in a .. e /\ m < d) \/ m \in e + 2 .. d
      BY <1>3, <2>7 DEF Levels
    <3> HIDE DEF f
    <3>5. QED
      BY <2>3, <2>4, <2>5, <3>1, <3>3, <3>4
  <2>8. QED
    BY <1>3, <2>6, <2>7
<1>6. QED
  BY <1>4, <1>5

\* So does a coalescing.
LEMMA CoalescingCovers ==
  ASSUME NEW c \in 0 .. MaxChunks, NEW j \in 0 .. c - 1, NEW q \in InChunk,
         NEW a \in Levels, NEW d \in Levels, a <= d, NEW F, NEW G,
         Covered(F, c), Leaf(F, Over(j, d, q)),
         \A m \in a + 1 .. d : F[N(j, m, Twin(Up(m, q)))].free,
         Coalescing(G, F, j, q, a, d)
  PROVE  Covered(G, c)
<1>1. SUFFICES ASSUME NEW k \in 0 .. c - 1, NEW r \in InChunk
               PROVE  \E l \in Levels : \A m \in Levels : Leaf(G, Over(k, m, r)) <=> m = l
  BY DEF Covered
<1>2. PICK l \in Levels : \A m \in Levels : Leaf(F, Over(k, m, r)) <=> m = l
  BY DEF Covered
<1>3. a \in Nat /\ d \in Nat /\ d <= Depth /\ Depth \in Nat /\ j \in Nat /\ k \in Nat
  BY Widths, Constants
<1>4. CASE k # j \/ Up(a, r) # Up(a, q)
  BY <1>2, <1>4, OffPath DEF Coalescing
<1>5. CASE k = j /\ Up(a, r) = Up(a, q)
  <2>2. PICK e \in a .. d : /\ \A m \in 0 .. e : Up(m, r) = Up(m, q)
                            /\ e < d => Up(e + 1, r) = Twin(Up(e + 1, q))
                            /\ \A m \in e + 1 .. d : Up(m, r) # Up(m, q)
                            /\ \A m \in e + 2 .. d : Up(m, r) # Twin(Up(m, q))
    BY <1>5, Branch
  <2>1. l = (IF e < d THEN e + 1 ELSE d)
    <3>1. CASE e = d
      BY <1>2, <1>3, <1>5, <2>2, <3>1 DEF Over
    <3>2. CASE e < d
      <4> DEFINE f == e + 1
      <4>1. f \in Levels /\ f \in a + 1 .. d
        BY <1>3, <3>2 DEF Levels
      <4>2. Over(k, f, r) = N(j, f, Twin(Up(f, q)))
        BY <1>5, <2>2, <3>2 DEF Over
      <4>3. Leaf(F, Over(k, f, r))
        BY <4>1, <4>2 DEF Leaf
      <4>4. l = f
        BY <1>2, <4>1, <4>3
      <4>5. QED
        BY <3>2, <4>4
    <3>3. QED
      BY <1>3, <3>1, <3>2
  <2>3. ASSUME NEW m \in Levels, m \notin a .. d
        PROVE  ~Leaf(G, Over(k, m, r))
    <3>1. Over(k, m, r) \in Nodes
      BY UpAt, InNodes DEF Over
    <3>2. Over(k, m, r) \notin Path(j, q, a, d)
      BY <1>3, <2>3, PathBelow
    <3>3. m # l
      BY <1>3, <2>1, <2>3
    <3>4. QED
      BY <1>2, <3>1, <3>2, <3>3 DEF Coalescing, Leaf
  <2>4. ASSUME NEW m \in a + 1 .. e
        PROVE  ~Leaf(G, Over(k, m, r))
    <3>1. Over(k, m, r) = Over(j, m, q) /\ m \in a + 1 .. d
      BY <1>3, <1>5, <2>2, <2>4 DEF Over
    <3>2. G[Over(j, m, q)] = Flag(m, FALSE, TRUE)
      BY <3>1 DEF Coalescing
    <3>3. QED
      BY <3>1, <3>2 DEF Leaf, Flag
  <2>5. ASSUME NEW m \in e + 1 .. d
        PROVE  ~Leaf(G, Over(k, m, r))
    <3>1. m \in Levels /\ e < d /\ m \in a + 1 .. d
      BY <1>3, <2>2 DEF Levels
    <3>2. CASE m = e + 1
      <4>1. Over(k, m, r) = N(j, m, Twin(Up(m, q)))
        BY <1>5, <2>2, <3>1, <3>2 DEF Over
      <4>2. G[N(j, m, Twin(Up(m, q)))] = Flag(m, FALSE, TRUE)
        BY <3>1 DEF Coalescing
      <4>3. QED
        BY <4>1, <4>2 DEF Leaf, Flag
    <3>3. CASE m # e + 1
      <4>1. m \in e + 2 .. d /\ m # l
        BY <1>3, <2>1, <3>1, <3>3
      <4>2. Over(k, m, r) \notin Path(j, q, a, d)
        BY <1>3, <2>2, <3>1, <4>1, PathBelow
      <4>3. Over(k, m, r) \in Nodes
        BY <3>1, UpAt, InNodes DEF Over
      <4>4. QED
        BY <1>2, <3>1, <4>1, <4>2, <4>3 DEF Coalescing, Leaf
    <3>4. QED
      BY <3>2, <3>3
  <2>6. Leaf(G, Over(k, a, r))
    BY <1>3, <1>5, PathNodes DEF Over, Coalescing, FlagType, Leaf
  <2>7. \A m \in Levels : m # a => m \notin a .. d \/ m \in a + 1 .. e \/ m \in e + 1 .. d
    BY <1>3 DEF Levels
  <2>8. QED
    BY <2>3, <2>4, <2>5, <2>6, <2>7
<1>6. QED
  BY <1>4, <1>5

\* The leaf over a page is the only one above it.
LEMMA OneLeaf ==
  ASSUME NEW c, NEW F, Covered(F, c), NEW j \in 0 .. c - 1, NEW q \in InChunk,
         NEW l \in Levels, Leaf(F, Over(j, l, q)), NEW m \in Levels, m # l
  PROVE  ~Leaf(F, Over(j, m, q)) /\ ~F[Over(j, m, q)].free
BY DEF Covered, Leaf

\* A division keeps the tree, takes its block from the free ones and adds the twins
\* along the way.
LEMMA DividedTree ==
  ASSUME NEW c \in 0 .. MaxChunks, NEW j \in 0 .. c - 1, NEW q \in InChunk,
         NEW a \in Levels, NEW d \in Levels, a <= d, NEW F, NEW G,
         Tree(F, c), F[Over(j, a, q)].free, Divided(G, F, j, q, a, d)
  PROVE  /\ Tree(G, c)
         /\ \A m \in a + 1 .. d : ~F[N(j, m, Twin(Up(m, q)))].free
         /\ \A k \in 0 .. c - 1, l \in Levels : \A i \in At(l) :
              G[N(k, l, i)].free <=>
                \/ k = j /\ l \in a + 1 .. d /\ i = Twin(Up(l, q))
                \/ F[N(k, l, i)].free /\ ~(k = j /\ l = a /\ i = Up(a, q))
<1>1. /\ a \in Nat /\ d \in Nat /\ d <= Depth /\ Depth \in Nat /\ j \in Nat
      /\ Leaf(F, Over(j, a, q)) /\ Covered(F, c) /\ Depths(F, c) /\ Merged(F, c)
      /\ G \in [Nodes -> FlagType]
  BY Widths, Constants DEF Tree, Leaf, Divided
<1>2. Covered(G, c)
  BY <1>1, DividedCovers
<1>3. ASSUME NEW k \in 0 .. c - 1, NEW l \in Levels, NEW i \in At(l)
      PROVE  \/ k = j /\ l \in a .. d - 1 /\ i = Up(l, q) /\ G[N(k, l, i)] = Flag(l, FALSE, TRUE)
             \/ k = j /\ l = d /\ i = Up(l, q) /\ G[N(k, l, i)] = Flag(l, FALSE, FALSE)
             \/ k = j /\ l \in a + 1 .. d /\ i = Twin(Up(l, q)) /\ G[N(k, l, i)] = Flag(l, TRUE, FALSE)
             \/ /\ G[N(k, l, i)] = F[N(k, l, i)]
                /\ ~(k = j /\ l \in a .. d /\ i = Up(l, q))
                /\ ~(k = j /\ l \in a + 1 .. d /\ i = Twin(Up(l, q)))
  <2>1. N(k, l, i) \in Nodes /\ k \in Nat
    BY InNodes
  <2>2. CASE N(k, l, i) \notin Path(j, q, a, d)
    BY <2>1, <2>2 DEF Path, Over, Divided
  <2>3. CASE N(k, l, i) \in Path(j, q, a, d)
    <3>1. k = j /\ l \in a .. d /\ (i = Up(l, q) \/ (l > a /\ i = Twin(Up(l, q))))
      BY <1>1, <2>1, <2>3, OnPath
    <3>2. CASE i = Up(l, q) /\ l \in a .. d - 1
      BY <3>1, <3>2 DEF Divided, Over
    <3>3. CASE i = Up(l, q) /\ l = d
      BY <3>1, <3>3 DEF Divided, InUseFlag, Over
    <3>4. CASE i = Twin(Up(l, q)) /\ l \in a + 1 .. d
      BY <3>1, <3>4 DEF Divided
    <3>5. l \in a .. d - 1 \/ l = d
      BY <1>1, <3>1
    <3>6. l > a => l \in a + 1 .. d
      BY <1>1, <3>1
    <3>7. QED
      BY <3>1, <3>2, <3>3, <3>4, <3>5, <3>6
  <2>4. QED
    BY <2>2, <2>3
<1>4. Depths(G, c)
  <2>1. SUFFICES ASSUME NEW k \in 0 .. c - 1, NEW l \in Levels, NEW i \in At(l)
                 PROVE  G[N(k, l, i)].depth = l
    BY DEF Depths
  <2>2. F[N(k, l, i)].depth = l
    BY <1>1 DEF Depths
  <2>3. /\ Flag(l, FALSE, TRUE).depth = l /\ Flag(l, FALSE, FALSE).depth = l
        /\ Flag(l, TRUE, FALSE).depth = l
    BY DEF Flag
  <2>4. \/ G[N(k, l, i)] = Flag(l, FALSE, TRUE) \/ G[N(k, l, i)] = Flag(l, FALSE, FALSE)
        \/ G[N(k, l, i)] = Flag(l, TRUE, FALSE) \/ G[N(k, l, i)] = F[N(k, l, i)]
    BY <1>3
  <2>5. QED
    BY <2>2, <2>3, <2>4
<1>5. ASSUME NEW m \in a + 1 .. d
      PROVE  /\ m \in Levels /\ Up(m, q) \in At(m) /\ Twin(Up(m, q)) \in At(m)
             /\ ~F[N(j, m, Twin(Up(m, q)))].free /\ ~F[N(j, m, Up(m, q))].free
             /\ Twin(Twin(Up(m, q))) = Up(m, q) /\ Twin(Up(m, q)) # Up(m, q)
  <2>1. m \in Levels \ {0} /\ m # a /\ a \in 0 .. m - 1 /\ m - 1 \in Levels
    BY <1>1 DEF Levels
  <2>2. Up(m, q) \in At(m)
    BY <2>1, UpAt
  <2>3. /\ Twin(Up(m, q)) \in At(m) /\ Twin(Twin(Up(m, q))) = Up(m, q)
        /\ Twin(Up(m, q)) # Up(m, q)
    BY <2>1, <2>2, Twins
  <2>4. ~F[N(j, m, Up(m, q))].free
    BY <1>1, <2>1, OneLeaf DEF Over
  <2>5. PICK r \in InChunk : Up(m, r) = Twin(Up(m, q))
    BY <2>1, <2>3, FirstPage
  <2>6. Up(m - 1, q) = Up(m - 1, r)
    BY <2>1, <2>5, TwinAbove
  <2>7. Up(a, q) = Up(a, r)
    <3> DEFINE u == m - 1
    <3>1. u \in Levels /\ a \in 0 .. u /\ Up(u, q) = Up(u, r)
      BY <2>1, <2>6
    <3> HIDE DEF u
    <3>2. QED
      BY <3>1, SameAbove
  <2>8. Leaf(F, Over(j, a, r))
    BY <1>1, <2>7 DEF Over
  <2>9. ~F[Over(j, m, r)].free
    BY <1>1, <2>1, <2>8, OneLeaf
  <2>10. QED
    BY <2>1, <2>2, <2>3, <2>4, <2>5, <2>9 DEF Over
<1>6. ASSUME NEW k \in 0 .. c - 1, NEW l \in Levels, NEW i \in At(l)
      PROVE  G[N(k, l, i)].free <=>
                \/ k = j /\ l \in a + 1 .. d /\ i = Twin(Up(l, q))
                \/ F[N(k, l, i)].free /\ ~(k = j /\ l = a /\ i = Up(a, q))
  <2>1. CASE k = j /\ l \in a .. d - 1 /\ i = Up(l, q) /\ G[N(k, l, i)] = Flag(l, FALSE, TRUE)
    BY <1>1, <1>5, <2>1 DEF Flag
  <2>2. CASE k = j /\ l = d /\ i = Up(l, q) /\ G[N(k, l, i)] = Flag(l, FALSE, FALSE)
    BY <1>1, <1>5, <2>2 DEF Flag
  <2>3. CASE k = j /\ l \in a + 1 .. d /\ i = Twin(Up(l, q)) /\ G[N(k, l, i)] = Flag(l, TRUE, FALSE)
    BY <2>3 DEF Flag
  <2>4. CASE /\ G[N(k, l, i)] = F[N(k, l, i)]
             /\ ~(k = j /\ l \in a .. d /\ i = Up(l, q))
             /\ ~(k = j /\ l \in a + 1 .. d /\ i = Twin(Up(l, q)))
    BY <1>1, <2>4
  <2>5. QED
    BY ZenonT(40), <1>3, <2>1, <2>2, <2>3, <2>4
<1>7. Merged(G, c)
  <2>1. SUFFICES ASSUME NEW k \in 0 .. c - 1, NEW l \in Levels \ {0}, NEW i \in At(l),
                        G[N(k, l, i)].free, G[N(k, l, Twin(i))].free
                 PROVE  FALSE
    BY DEF Merged
  <2>2. Twin(i) \in At(l) /\ Twin(Twin(i)) = i
    BY Twins
  <2>3. ~(F[N(k, l, i)].free /\ F[N(k, l, Twin(i))].free)
    BY <1>1 DEF Merged
  <2>4. CASE k = j /\ l \in a + 1 .. d /\ i = Twin(Up(l, q))
    BY <1>5, <1>6, <2>1, <2>2, <2>4
  <2>5. CASE k = j /\ l \in a + 1 .. d /\ Twin(i) = Twin(Up(l, q))
    BY <1>5, <1>6, <2>1, <2>2, <2>5
  <2>6. QED
    BY <1>6, <2>1, <2>2, <2>3, <2>4, <2>5
<1>8. QED
  BY <1>1, <1>2, <1>4, <1>5, <1>6, <1>7 DEF Tree

\* A coalescing keeps the tree when the twin of the block it reaches is not free: that
\* block becomes free, and the twins along the way no longer are.
LEMMA CoalescedTree ==
  ASSUME NEW c \in 0 .. MaxChunks, NEW j \in 0 .. c - 1, NEW q \in InChunk,
         NEW a \in Levels, NEW d \in Levels, a <= d, NEW F, NEW G,
         Tree(F, c), ~F[Over(j, d, q)].free, ~F[Over(j, d, q)].inner,
         \A m \in a + 1 .. d : F[N(j, m, Twin(Up(m, q)))].free,
         a > 0 => ~F[N(j, a, Twin(Up(a, q)))].free,
         Coalescing(G, F, j, q, a, d)
  PROVE  /\ Tree(G, c)
         /\ ~F[Over(j, a, q)].free
         /\ \A k \in 0 .. c - 1, l \in Levels : \A i \in At(l) :
              G[N(k, l, i)].free <=>
                \/ k = j /\ l = a /\ i = Up(a, q)
                \/ F[N(k, l, i)].free /\ ~(k = j /\ l \in a + 1 .. d /\ i = Twin(Up(l, q)))
<1>0. j \in Nat
  BY Constants
<1>1. /\ a \in Nat /\ d \in Nat /\ d <= Depth /\ Depth \in Nat /\ j \in Nat
      /\ Leaf(F, Over(j, d, q)) /\ Covered(F, c) /\ Depths(F, c) /\ Merged(F, c)
      /\ G \in [Nodes -> FlagType] /\ F \in [Nodes -> FlagType]
  BY Widths, Constants DEF Tree, Leaf, Coalescing
<1>2. Covered(G, c)
  BY <1>1, CoalescingCovers
<1>3. ASSUME NEW k \in 0 .. c - 1, NEW l \in Levels, NEW i \in At(l)
      PROVE  \/ k = j /\ l \in a + 1 .. d /\ i = Up(l, q) /\ G[N(k, l, i)] = Flag(l, FALSE, TRUE)
             \/ k = j /\ l \in a + 1 .. d /\ i = Twin(Up(l, q)) /\ G[N(k, l, i)] = Flag(l, FALSE, TRUE)
             \/ /\ k = j /\ l = a /\ i = Up(l, q)
                /\ G[N(k, l, i)].free /\ G[N(k, l, i)].depth = F[N(k, l, i)].depth
             \/ /\ G[N(k, l, i)] = F[N(k, l, i)]
                /\ ~(k = j /\ l \in a .. d /\ i = Up(l, q))
                /\ ~(k = j /\ l \in a + 1 .. d /\ i = Twin(Up(l, q)))
  <2>1. N(k, l, i) \in Nodes /\ k \in Nat
    BY InNodes
  <2>2. CASE N(k, l, i) \notin Path(j, q, a, d)
    BY <2>1, <2>2 DEF Path, Over, Coalescing
  <2>3. CASE N(k, l, i) \in Path(j, q, a, d)
    <3>1. k = j /\ l \in a .. d /\ (i = Up(l, q) \/ (l > a /\ i = Twin(Up(l, q))))
      BY <1>0, <2>1, <2>3, OnPath
    <3>2. CASE i = Up(l, q) /\ l \in a + 1 .. d
      BY <3>1, <3>2 DEF Coalescing, Over
    <3>3. CASE i = Up(l, q) /\ l = a
      <4>1. G[Over(j, a, q)] = [F[Over(j, a, q)] EXCEPT !.free = TRUE]
        BY DEF Coalescing
      <4>2. Over(j, a, q) = N(k, l, i)
        BY <3>1, <3>3 DEF Over
      <4>3. F[N(k, l, i)] \in FlagType /\ G[N(k, l, i)] = [F[N(k, l, i)] EXCEPT !.free = TRUE]
        BY <1>1, <2>1, <4>1, <4>2
      <4>4. G[N(k, l, i)].free /\ G[N(k, l, i)].depth = F[N(k, l, i)].depth
        BY <4>3 DEF FlagType
      <4>5. QED
        BY <3>1, <3>3, <4>4
    <3>4. CASE i = Twin(Up(l, q)) /\ l \in a + 1 .. d
      BY <3>1, <3>4 DEF Coalescing
    <3>5. l \in a + 1 .. d \/ l = a
      BY <1>1, <3>1
    <3>6. l > a => l \in a + 1 .. d
      BY <1>1, <3>1
    <3>7. QED
      BY <3>1, <3>2, <3>3, <3>4, <3>5, <3>6
  <2>4. QED
    BY <2>2, <2>3
<1>4. Depths(G, c)
  <2>1. SUFFICES ASSUME NEW k \in 0 .. c - 1, NEW l \in Levels, NEW i \in At(l)
                 PROVE  G[N(k, l, i)].depth = l
    BY DEF Depths
  <2>2. F[N(k, l, i)].depth = l
    BY <1>1 DEF Depths
  <2>3. Flag(l, FALSE, TRUE).depth = l
    BY DEF Flag
  <2>4. \/ G[N(k, l, i)] = Flag(l, FALSE, TRUE)
        \/ G[N(k, l, i)].depth = F[N(k, l, i)].depth \/ G[N(k, l, i)] = F[N(k, l, i)]
    BY <1>3
  <2>5. QED
    BY <2>2, <2>3, <2>4
<1>5. ASSUME NEW m \in a + 1 .. d
      PROVE  /\ m \in Levels /\ Up(m, q) \in At(m) /\ Twin(Up(m, q)) \in At(m)
             /\ ~F[N(j, m, Up(m, q))].free /\ F[N(j, m, Twin(Up(m, q)))].free
             /\ Twin(Twin(Up(m, q))) = Up(m, q) /\ Twin(Up(m, q)) # Up(m, q)
  BY <1>1, UpAt, Twins, OneLeaf DEF Levels, Over
<1>6. ~F[Over(j, a, q)].free
  BY <1>1, OneLeaf
<1>7. ASSUME NEW k \in 0 .. c - 1, NEW l \in Levels, NEW i \in At(l)
      PROVE  G[N(k, l, i)].free <=>
                \/ k = j /\ l = a /\ i = Up(a, q)
                \/ F[N(k, l, i)].free /\ ~(k = j /\ l \in a + 1 .. d /\ i = Twin(Up(l, q)))
  <2>0. a \notin a + 1 .. d /\ a \in a .. d
    BY <1>1
  <2>1. CASE k = j /\ l \in a + 1 .. d /\ i = Up(l, q) /\ G[N(k, l, i)] = Flag(l, FALSE, TRUE)
    BY <1>5, <2>0, <2>1 DEF Flag
  <2>2. CASE k = j /\ l \in a + 1 .. d /\ i = Twin(Up(l, q)) /\ G[N(k, l, i)] = Flag(l, FALSE, TRUE)
    BY <2>0, <2>2 DEF Flag
  <2>3. CASE k = j /\ l = a /\ i = Up(l, q) /\ G[N(k, l, i)].free
    BY <2>3
  <2>4. CASE /\ G[N(k, l, i)] = F[N(k, l, i)]
             /\ ~(k = j /\ l \in a .. d /\ i = Up(l, q))
             /\ ~(k = j /\ l \in a + 1 .. d /\ i = Twin(Up(l, q)))
    BY <2>0, <2>4
  <2>5. QED
    BY ZenonT(40), <1>3, <2>1, <2>2, <2>3, <2>4
<1>8. Merged(G, c)
  <2>1. SUFFICES ASSUME NEW k \in 0 .. c - 1, NEW l \in Levels \ {0}, NEW i \in At(l),
                        G[N(k, l, i)].free, G[N(k, l, Twin(i))].free
                 PROVE  FALSE
    BY DEF Merged
  <2>2. Twin(i) \in At(l) /\ Twin(Twin(i)) = i /\ l \in Levels /\ l \in Nat /\ l # 0 /\ Twin(i) # i
    BY Twins, Widths
  <2>3. ~(F[N(k, l, i)].free /\ F[N(k, l, Twin(i))].free)
    BY <1>1 DEF Merged
  <2>4. CASE k = j /\ l = a /\ i = Up(a, q)
    BY <1>1, <1>7, <2>1, <2>2, <2>4
  <2>5. CASE k = j /\ l = a /\ Twin(i) = Up(a, q)
    BY <1>1, <1>7, <2>1, <2>2, <2>5
  <2>6. QED
    BY <1>7, <2>1, <2>2, <2>3, <2>4, <2>5
<1>9. QED
  BY <1>1, <1>2, <1>4, <1>6, <1>7, <1>8 DEF Tree

(***************************************************************************)
(* The flags Split and Coalesce write.                                     *)
(***************************************************************************)
Left(n, a, l)    == Descendant(n, l - a)
\* The right halves that a division from level a to level d leaves free, by level.
Rights(t, n, a, d) == [l \in a + 1 .. d |-> <<t, Left(n, a, l) + 1>>]
\* The flags after split () has walked down from node n0 of level a to level d.
SplitFlags(F, n0, a, d) ==
  [n \in Nodes |->
     IF n = Left(n0, a, d) THEN InUseFlag(d)
     ELSE IF \E l \in a .. d - 1 : n = Left(n0, a, l)
     THEN Flag(a + (CHOOSE k \in 0 .. Depth : n = Left(n0, a, a + k)), FALSE, TRUE)
     ELSE IF \E l \in a + 1 .. d : n = Left(n0, a, l) + 1
     THEN Flag(CHOOSE l \in a + 1 .. d : n = Left(n0, a, l) + 1, TRUE, FALSE)
     ELSE F[n]]

\* split () writes those flags and pushes those halves on their lists.
LEMMA SplitIs ==
  ASSUME NEW h, NEW t, NEW n, NEW a, NEW d
  PROVE  Split(h, <<t, n>>, a, d) =
           [heap  |-> PushEach([h EXCEPT !.flags[t] = SplitFlags(h.flags[t], n, a, d)],
                               Rights(t, n, a, d)),
            block |-> <<t, Left(n, a, d)>>]
<1>1. DOMAIN Rights(t, n, a, d) = a + 1 .. d
  BY DEF Rights
<1>2. QED
  BY <1>1 DEF Split, Rights, SplitFlags, Left

\* The left descendants of a node are all different: their levels are.
LEMMA DescendantsDiffer ==
  ASSUME NEW j \in Nat, NEW l \in Levels, NEW i \in At(l), NEW k \in Nat, NEW m \in Nat,
         Descendant(N(j, l, i), k) = Descendant(N(j, l, i), m)
  PROVE  k = m
<1> DEFINE x == Local(N(j, l, i)) + 1
           b == Base(N(j, l, i))
           y == 2 ^ k
           z == 2 ^ m
<1>1. x \in Nat /\ x >= 1 /\ b \in Int
  <2>1. Local(N(j, l, i)) \in 0 .. Slots - 2 /\ b = j * Slots /\ Slots \in Nat
    BY NumberIs, SlotsAre
  <2>2. QED
    BY <2>1
<1>2. y \in Nat \ {0} /\ z \in Nat \ {0}
  BY TwoToThe
<1>3. b + x * y - 1 = b + x * z - 1
  BY DEF Descendant
<1> HIDE DEF x, b
<1>4. ASSUME NEW u \in Nat, NEW v \in Nat, u < v, b + x * 2 ^ u - 1 = b + x * 2 ^ v - 1
      PROVE  FALSE
  <2> DEFINE f == 2 ^ u
             g == 2 ^ v
             w == u + 1
  <2>1. w \in Nat /\ w <= v /\ 2 ^ w = 2 * f /\ f \in Nat /\ f >= 1
    BY <1>4, TwoToThe
  <2>2. g \in Nat /\ 2 ^ w <= g
    BY <2>1, PowersGrow
  <2>3. g >= f + 1 /\ b + x * f - 1 = b + x * g - 1
    BY <1>4, <2>1, <2>2
  <2> HIDE DEF f, g
  <2>4. x * g >= x * (f + 1) /\ x * (f + 1) = x * f + x
    BY <1>1, <2>1, <2>2, <2>3
  <2>5. x * f \in Int /\ x * g \in Int
    BY <1>1, <2>1, <2>2
  <2>6. QED
    BY <1>1, <2>3, <2>4, <2>5
<1>5. QED
  BY <1>3, <1>4

\* The walk down passes over the first page of the block, and leaves the twins.
LEMMA LeftIs ==
  ASSUME NEW j \in Nat, NEW a \in Levels, NEW i \in At(a), NEW l \in a .. Depth
  PROVE  /\ Left(N(j, a, i), a, l) = Over(j, l, i * Width(a))
         /\ l > a => Left(N(j, a, i), a, l) + 1 = N(j, l, Twin(Up(l, i * Width(a))))
<1>1. a \in Nat /\ Depth \in Nat /\ l - a \in 0 .. Depth - a /\ a + (l - a) = l /\ l \in Levels
  BY Widths, Constants DEF Levels
<1>2. Left(N(j, a, i), a, l) = Over(j, l, i * Width(a))
  <2> DEFINE k == l - a
  <2>1. k \in 0 .. Depth - a /\ a + k = l
    BY <1>1
  <2> HIDE DEF k
  <2>2. Descendant(N(j, a, i), k) = Over(j, l, i * Width(a))
    BY <2>1, DescendantIs
  <2>3. QED
    BY <2>2 DEF Left, k
<1>3. ASSUME l > a
      PROVE  Over(j, l, i * Width(a)) + 1 = N(j, l, Twin(Up(l, i * Width(a))))
  <2> DEFINE u == Up(l, i * Width(a))
             e == l - a - 1
             y == 2 ^ e
  <2>1. u = i * 2 ^ (l - a)
    <3> DEFINE k == l - a
    <3>1. k \in 0 .. Depth - a /\ a + k = l
      BY <1>1
    <3> HIDE DEF k
    <3>2. Up(a + k, i * Width(a)) = i * 2 ^ k
      BY <3>1, FirstPage
    <3>3. QED
      BY <3>1, <3>2 DEF k
  <2>2. y \in Nat /\ 2 ^ (l - a) = 2 * y
    BY <1>1, <1>3, TwoToThe
  <2>3. i \in Nat
    BY <1>1, Widths DEF At
  <2>4. u % 2 = 0 /\ u \in Nat
    <3> HIDE DEF y
    <3>1. u = 2 * (i * y) /\ i * y \in Nat
      BY <2>1, <2>2, <2>3
    <3> DEFINE z == i * y
    <3> HIDE DEF z, u
    <3>2. u = 2 * z /\ z \in Nat
      BY <3>1 DEF z
    <3>3. QED
      BY <3>2
  <2> HIDE DEF u
  <2>5. Twin(u) = u + 1
    BY <2>4 DEF Twin
  <2>6. N(j, l, u) + 1 = N(j, l, u + 1)
    <3> DEFINE b == j * Slots
               p == 2 ^ l
    <3>1. b \in Int /\ p \in Int
      BY <1>1, SlotsAre, Widths
    <3> HIDE DEF b, p
    <3>2. b + (p - 1 + u) + 1 = b + (p - 1 + (u + 1))
      BY <2>4, <3>1
    <3>3. QED
      BY <3>2 DEF N, b, p
  <2>7. QED
    BY <2>5, <2>6 DEF Over, u
<1>4. QED
  BY <1>2, <1>3

\* The node k levels down the walk is the k-th left descendant.
LEMMA LeftBelow ==
  ASSUME NEW n, NEW a \in Nat, NEW k \in Nat
  PROVE  Left(n, a, a + k) = Descendant(n, k)
<1> DEFINE l == a + k
<1>1. l - a = k
  OBVIOUS
<1> HIDE DEF l
<1>2. Left(n, a, l) = Descendant(n, k)
  BY <1>1 DEF Left
<1>3. QED
  BY <1>2 DEF l

\* What split () does to the flags is a division.
LEMMA SplitDivides ==
  ASSUME NEW c \in 0 .. MaxChunks, NEW j \in 0 .. c - 1, NEW a \in Levels, NEW i \in At(a),
         NEW d \in Levels, a <= d, NEW F \in [Nodes -> FlagType]
  PROVE  Divided(SplitFlags(F, N(j, a, i), a, d), F, j, i * Width(a), a, d)
<1> DEFINE q == i * Width(a)
           n0 == N(j, a, i)
           G == SplitFlags(F, n0, a, d)
<1>1. /\ a \in Nat /\ d \in Nat /\ d <= Depth /\ Depth \in Nat /\ j \in Nat /\ q \in InChunk
  BY Widths, Constants, FirstPage
<1>2. /\ \A l \in a .. d : Left(n0, a, l) = Over(j, l, q)
      /\ \A l \in a + 1 .. d : Left(n0, a, l) + 1 = N(j, l, Twin(Up(l, q)))
  BY <1>1, LeftIs
<1>3. /\ \A m \in a .. d : m \in Levels /\ Up(m, q) \in At(m) /\ Over(j, m, q) \in Nodes
      /\ \A m \in a + 1 .. d : /\ m \in Levels \ {0} /\ Twin(Up(m, q)) \in At(m)
                               /\ N(j, m, Twin(Up(m, q))) \in Nodes
                               /\ Twin(Up(m, q)) # Up(m, q)
  BY <1>1, PathNodes, Twins
<1>4. \A m \in a .. d : \A l \in Levels : \A x \in At(l) : Over(j, m, q) = N(j, l, x) => m = l /\ Up(m, q) = x
  BY <1>1, <1>3, OverIs
<1>5. \A k, m \in Nat : Left(n0, a, a + k) = Left(n0, a, a + m) => k = m
  <2>1. SUFFICES ASSUME NEW k \in Nat, NEW m \in Nat, Left(n0, a, a + k) = Left(n0, a, a + m)
                 PROVE  k = m
    OBVIOUS

  <2>3. Descendant(n0, k) = Descendant(n0, m)
    <3> HIDE DEF n0
    <3>1. Left(n0, a, a + k) = Descendant(n0, k) /\ Left(n0, a, a + m) = Descendant(n0, m)
      BY <1>1, LeftBelow
    <3>2. QED
      BY <2>1, <3>1
  <2>4. QED
    BY <1>1, <2>3, DescendantsDiffer
<1> DEFINE Mid(n) == a + (CHOOSE k \in 0 .. Depth : n = Left(n0, a, a + k))
           Rgt(n) == CHOOSE l \in a + 1 .. d : n = Left(n0, a, l) + 1
<1>6. \A n \in Nodes : G[n] =
         IF n = Left(n0, a, d) THEN InUseFlag(d)
         ELSE IF \E l \in a .. d - 1 : n = Left(n0, a, l) THEN Flag(Mid(n), FALSE, TRUE)
         ELSE IF \E l \in a + 1 .. d : n = Left(n0, a, l) + 1 THEN Flag(Rgt(n), TRUE, FALSE)
         ELSE F[n]
  BY DEF SplitFlags
<1>7. G = [n \in Nodes |-> G[n]]
  BY DEF SplitFlags
<1> HIDE DEF G, n0, q
<1>8. ASSUME NEW m \in a .. d - 1
      PROVE  G[Over(j, m, q)] = Flag(m, FALSE, TRUE)
  <2> DEFINE n == Over(j, m, q)
  <2>1. m \in a .. d /\ d \in a .. d /\ m # d /\ m \in Levels /\ d \in Levels
    BY <1>1, <1>3
  <2>2. n \in Nodes /\ n = Left(n0, a, m) /\ n # Left(n0, a, d)
    BY <1>2, <1>3, <1>4, <2>1 DEF Over
  <2>3. Mid(n) = m
    <3>1. m - a \in 0 .. Depth /\ a + (m - a) = m /\ m - a \in Nat
      BY <1>1
    <3>2. \A k \in 0 .. Depth : n = Left(n0, a, a + k) => k = m - a
      <4>1. \A k \in 0 .. Depth : k \in Nat
        OBVIOUS
      <4>2. n = Left(n0, a, a + (m - a))
        BY <2>2, <3>1
      <4> HIDE DEF n
      <4>3. QED
        BY <1>5, <3>1, <4>1, <4>2
    <3>3. (CHOOSE k \in 0 .. Depth : n = Left(n0, a, a + k)) = m - a
      BY <2>2, <3>1, <3>2
    <3>4. QED
      BY <3>1, <3>3
  <2>4. \E l \in a .. d - 1 : n = Left(n0, a, l)
    BY <2>2
  <2> HIDE DEF n, Mid
  <2>5. G[n] = Flag(Mid(n), FALSE, TRUE)
    BY <1>6, <2>2, <2>4
  <2>6. QED
    BY <2>3, <2>5 DEF n
<1>9. G[Over(j, d, q)] = InUseFlag(d)
  <2>1. d \in a .. d
    BY <1>1
  <2>2. Over(j, d, q) \in Nodes /\ Over(j, d, q) = Left(n0, a, d)
    BY <1>2, <1>3, <2>1
  <2>3. QED
    BY <1>6, <2>2
<1>10. ASSUME NEW m \in a + 1 .. d
       PROVE  G[N(j, m, Twin(Up(m, q)))] = Flag(m, TRUE, FALSE)
  <2> DEFINE n == N(j, m, Twin(Up(m, q)))
  <2>1. m \in a .. d /\ d \in a .. d /\ m \in Levels /\ Twin(Up(m, q)) \in At(m)
        /\ Twin(Up(m, q)) # Up(m, q)
    BY <1>1, <1>3
  <2>2. \A l \in a .. d : n # Left(n0, a, l)
    BY <1>2, <1>4, <2>1
  <2>3. n \in Nodes /\ n = Left(n0, a, m) + 1
    BY <1>2, <1>3
  <2>4. \A l \in a + 1 .. d : n = Left(n0, a, l) + 1 => l = m
    BY <1>1, <1>2, <1>3, OneNumber
  <2> HIDE DEF n
  <2>5. Rgt(n) = m
    BY <2>3, <2>4
  <2>6. ~(\E l \in a .. d - 1 : n = Left(n0, a, l)) /\ n # Left(n0, a, d)
    BY <1>1, <2>1, <2>2
  <2>7. \E l \in a + 1 .. d : n = Left(n0, a, l) + 1
    BY <2>3
  <2> HIDE DEF Mid, Rgt
  <2>8. G[n] = Flag(Rgt(n), TRUE, FALSE)
    BY <1>6, <2>3, <2>6, <2>7
  <2>9. QED
    BY <2>5, <2>8 DEF n
<1>11. ASSUME NEW n \in Nodes \ Path(j, q, a, d)
       PROVE  G[n] = F[n]
  <2>1. /\ \A l \in a .. d : n # Left(n0, a, l)
        /\ \A l \in a + 1 .. d : n # Left(n0, a, l) + 1
    BY <1>2 DEF Path
  <2>2. d \in a .. d /\ \A l \in a .. d - 1 : l \in a .. d
    BY <1>1
  <2> HIDE DEF Mid, Rgt
  <2>3. QED
    BY <1>6, <2>1, <2>2
<1>12. G \in [Nodes -> FlagType]
  <2>1. SUFFICES ASSUME NEW n \in Nodes
                 PROVE  G[n] \in FlagType
    BY <1>7
  <2>2. CASE n \notin Path(j, q, a, d)
    BY <1>11, <2>2
  <2>3. CASE \E m \in a .. d : n = Over(j, m, q)
    <3>1. PICK m \in a .. d : n = Over(j, m, q)
      BY <2>3
    <3>2. m \in Levels /\ (m \in a .. d - 1 \/ m = d)
      BY <1>1, <1>3
    <3>3. G[n] = Flag(m, FALSE, TRUE) \/ G[n] = Flag(m, FALSE, FALSE)
      BY <1>8, <1>9, <3>1, <3>2 DEF InUseFlag
    <3>4. Flag(m, FALSE, TRUE) \in FlagType /\ Flag(m, FALSE, FALSE) \in FlagType
      BY <3>2 DEF Flag, FlagType
    <3>5. QED
      BY <3>3, <3>4
  <2>4. CASE \E m \in a + 1 .. d : n = N(j, m, Twin(Up(m, q)))
    <3>1. PICK m \in a + 1 .. d : n = N(j, m, Twin(Up(m, q)))
      BY <2>4
    <3>2. m \in Levels /\ G[n] = Flag(m, TRUE, FALSE)
      BY <1>3, <1>10, <3>1
    <3>3. QED
      BY <3>2 DEF Flag, FlagType
  <2>5. QED
    BY <2>2, <2>3, <2>4 DEF Path
<1>13. QED
  BY <1>8, <1>9, <1>10, <1>11, <1>12 DEF Divided, G, n0, q

\* The siblings that k merges up from node n take off their lists, by level.
Gone(t, n, d, k) == [l \in d - k + 1 .. d |-> Address(<<t, Sibling(Ancestor(n, d - l))>>, l)]
\* The flags after k merges up from node n0 of level d.
CoalesceFlags(F, n0, d, k) ==
  [n \in Nodes |->
     IF n = Ancestor(n0, k) THEN [F[n] EXCEPT !.free = TRUE]
     ELSE IF \E i \in 0 .. k - 1 : n \in {Ancestor(n0, i), Sibling(Ancestor(n0, i))}
     THEN Flag(d - (CHOOSE i \in 0 .. k - 1 : n \in {Ancestor(n0, i), Sibling(Ancestor(n0, i))}),
               FALSE, TRUE)
     ELSE F[n]]

\* Giving a block back pops its free siblings, writes those flags and pushes the merged block.
LEMMA CoalesceIs ==
  ASSUME NEW h, NEW t, NEW n, NEW d, NEW k, h.flags[t][n].depth = d, Climb(h, <<t, n>>, d) = k
  PROVE  Coalesce(h, <<t, n>>) =
           PushEach([PopEach(h, Gone(t, n, d, k)) EXCEPT
                       !.flags[t] = CoalesceFlags(h.flags[t], n, d, k)],
                    [l \in {d - k} |-> <<t, Ancestor(n, k)>>])
<1> DEFINE D == h.flags[t][n].depth
           K == Climb(h, <<t, n>>, D)
<1>1. Coalesce(h, <<t, n>>) =
        PushEach([PopEach(h, Gone(t, n, D, K)) EXCEPT
                    !.flags[t] = CoalesceFlags(h.flags[t], n, D, K)],
                 [l \in {D - K} |-> <<t, Ancestor(n, K)>>])
  BY ZenonT(40) DEF Coalesce, Gone, CoalesceFlags
<1>2. D = d
  OBVIOUS
<1>3. K = k
  BY <1>2
<1> HIDE DEF D, K
<1>4. QED
  BY <1>1, <1>2, <1>3

\* The way up from a block, step by step.
LEMMA WayUp ==
  ASSUME NEW j \in Nat, NEW d \in Levels, NEW q \in InChunk, NEW k \in 0 .. d, NEW n,
         n = Over(j, d, q)
  PROVE  /\ \A x \in 0 .. k : Ancestor(n, x) = Over(j, d - x, q)
         /\ \A x \in 0 .. k - 1 : Sibling(Ancestor(n, x)) = N(j, d - x, Twin(Up(d - x, q)))
<1>1. d \in Nat /\ d <= Depth /\ Depth \in Nat
  BY Widths, Constants
<1>2. ASSUME NEW x \in 0 .. k
      PROVE  Ancestor(n, x) = Over(j, d - x, q)
  BY <1>1, AncestorIs
<1>3. ASSUME NEW x \in 0 .. k - 1
      PROVE  Sibling(Ancestor(n, x)) = N(j, d - x, Twin(Up(d - x, q)))
  <2> DEFINE l == d - x
  <2>1. l \in Levels \ {0} /\ x \in 0 .. k
    BY <1>1 DEF Levels
  <2>2. Ancestor(n, x) = Over(j, l, q)
    BY <1>2, <2>1
  <2> HIDE DEF l
  <2>3. Sibling(N(j, l, Up(l, q))) = N(j, l, Twin(Up(l, q)))
    BY <2>1, UpAt, SiblingIs
  <2>4. QED
    BY <2>2, <2>3 DEF Over, l
<1>4. QED
  BY <1>2, <1>3

\* What k merges do to the flags is a coalescing.
LEMMA CoalesceCoalesces ==
  ASSUME NEW c \in 0 .. MaxChunks, NEW j \in 0 .. c - 1, NEW q \in InChunk,
         NEW d \in Levels, NEW k \in 0 .. d, NEW F \in [Nodes -> FlagType]
  PROVE  Coalescing(CoalesceFlags(F, Over(j, d, q), d, k), F, j, q, d - k, d)
<1> DEFINE a == d - k
           n0 == Over(j, d, q)
           G == CoalesceFlags(F, n0, d, k)
           Pair(x) == {Over(j, d - x, q), N(j, d - x, Twin(Up(d - x, q)))}
           Lvl(n) == d - (CHOOSE x \in 0 .. k - 1 : n \in Pair(x))
<1>1. d \in Nat /\ d <= Depth /\ Depth \in Nat /\ j \in Nat /\ k \in Nat /\ a \in Levels
      /\ a \in Nat /\ a <= d
  BY Widths, Constants DEF Levels
<1>2. Ancestor(n0, k) = Over(j, a, q)
  BY <1>1, AncestorIs
<1>3. \A x \in 0 .. k - 1 : {Ancestor(n0, x), Sibling(Ancestor(n0, x))} = Pair(x)
  BY <1>1, WayUp DEF n0
<1>4. \A n \in Nodes : G[n] =
         IF n = Over(j, a, q) THEN [F[n] EXCEPT !.free = TRUE]
         ELSE IF \E x \in 0 .. k - 1 : n \in Pair(x) THEN Flag(Lvl(n), FALSE, TRUE)
         ELSE F[n]
  <2>1. SUFFICES ASSUME NEW n \in Nodes
                 PROVE  G[n] =
                          IF n = Over(j, a, q) THEN [F[n] EXCEPT !.free = TRUE]
                          ELSE IF \E x \in 0 .. k - 1 : n \in Pair(x) THEN Flag(Lvl(n), FALSE, TRUE)
                          ELSE F[n]
    BY Zenon
  <2> DEFINE Anc(x) == {Ancestor(n0, x), Sibling(Ancestor(n0, x))}
  <2>2. G[n] = IF n = Ancestor(n0, k) THEN [F[n] EXCEPT !.free = TRUE]
               ELSE IF \E x \in 0 .. k - 1 : n \in Anc(x)
               THEN Flag(d - (CHOOSE x \in 0 .. k - 1 : n \in Anc(x)), FALSE, TRUE)
               ELSE F[n]
    BY DEF CoalesceFlags
  <2>3. \A x \in 0 .. k - 1 : Anc(x) = Pair(x)
    BY <1>3
  <2> HIDE DEF Anc, Pair, G, n0, a
  <2>4. (CHOOSE x \in 0 .. k - 1 : n \in Anc(x)) = (CHOOSE x \in 0 .. k - 1 : n \in Pair(x))
    BY <2>3
  <2>5. (\E x \in 0 .. k - 1 : n \in Anc(x)) <=> (\E x \in 0 .. k - 1 : n \in Pair(x))
    BY <2>3
  <2>6. QED
    BY <1>2, <2>2, <2>4, <2>5
<1>5. G = [n \in Nodes |-> G[n]]
  BY DEF CoalesceFlags
<1> HIDE DEF G, n0, a
<1>6. /\ \A m \in a .. d : m \in Levels /\ Up(m, q) \in At(m) /\ Over(j, m, q) \in Nodes
      /\ \A m \in a + 1 .. d : /\ m \in Levels \ {0} /\ Twin(Up(m, q)) \in At(m)
                               /\ N(j, m, Twin(Up(m, q))) \in Nodes
  BY <1>1, PathNodes
<1>7. a = d - k
  BY DEF a
<1>8. \A x \in 0 .. k - 1 : d - x \in a + 1 .. d /\ d - x \in Levels /\ d - x # a
  BY <1>1, <1>7 DEF Levels
<1>9. ASSUME NEW m \in a + 1 .. d, NEW n \in {Over(j, m, q), N(j, m, Twin(Up(m, q)))}
      PROVE  n \in Nodes /\ G[n] = Flag(m, FALSE, TRUE)
  <2>1. m \in Levels /\ Up(m, q) \in At(m) /\ Twin(Up(m, q)) \in At(m) /\ n \in Nodes
    BY <1>1, <1>6
  <2>2. PICK i \in At(m) : n = N(j, m, i)
    BY <2>1 DEF Over
  <2>3. \A l \in Levels : \A x \in At(l) : n = N(j, l, x) => l = m
    <3>1. SUFFICES ASSUME NEW l \in Levels, NEW x \in At(l), N(j, m, i) = N(j, l, x)
                   PROVE  l = m
      BY <2>2
    <3>2. QED
      BY <1>1, <2>1, <3>1, OneNumber
  <2>4. n # Over(j, a, q)
    BY <1>1, <1>6, <2>3 DEF Over
  <2>5. \A x \in 0 .. k - 1 : n \in Pair(x) => d - x = m
    <3>1. SUFFICES ASSUME NEW x \in 0 .. k - 1, n \in Pair(x)
                   PROVE  d - x = m
      OBVIOUS
    <3> DEFINE l == d - x
    <3>2. l \in Levels /\ Up(l, q) \in At(l) /\ Twin(Up(l, q)) \in At(l)
      BY <1>1, <1>6, <1>8
    <3>3. n = N(j, l, Up(l, q)) \/ n = N(j, l, Twin(Up(l, q)))
      BY <3>1 DEF Over
    <3> HIDE DEF l
    <3>4. l = m
      BY <2>3, <3>2, <3>3
    <3>5. QED
      BY <3>4 DEF l
  <2>6. d - m \in 0 .. k - 1 /\ n \in Pair(d - m) /\ \A x \in 0 .. k - 1 : d - x = m => x = d - m
    BY <1>1, <1>7, <1>9
  <2> HIDE DEF Pair
  <2>7. (CHOOSE x \in 0 .. k - 1 : n \in Pair(x)) = d - m
    BY <2>5, <2>6
  <2>8. Lvl(n) = m
    <3>1. d - (d - m) = m
      BY <1>1
    <3>2. QED
      BY <2>7, <3>1, Zenon
  <2> HIDE DEF Lvl
  <2>9. QED
    BY <1>4, <2>1, <2>4, <2>6, <2>8
<1>10. Over(j, a, q) \in Nodes /\ G[Over(j, a, q)] = [F[Over(j, a, q)] EXCEPT !.free = TRUE]
  <2>1. a \in a .. d
    BY <1>1
  <2> HIDE DEF Pair, Lvl
  <2>2. QED
    BY <1>4, <1>6, <2>1
<1>11. ASSUME NEW n \in Nodes \ Path(j, q, a, d)
       PROVE  G[n] = F[n]
  <2>1. n # Over(j, a, q)
    BY <1>1, <1>11 DEF Path
  <2>2. \A x \in 0 .. k - 1 : n \notin Pair(x)
    BY <1>1, <1>8 DEF Path
  <2> HIDE DEF Pair, Lvl
  <2>3. QED
    BY <1>4, <2>1, <2>2
<1>12. G \in [Nodes -> FlagType]
  <2>1. SUFFICES ASSUME NEW n \in Nodes
                 PROVE  G[n] \in FlagType
    BY <1>5
  <2>2. CASE n \notin Path(j, q, a, d)
    BY <1>11, <2>2
  <2>3. CASE n = Over(j, a, q)
    BY <1>10, <2>3 DEF FlagType
  <2>4. CASE \E m \in a + 1 .. d : n \in {Over(j, m, q), N(j, m, Twin(Up(m, q)))}
    <3>1. PICK m \in a + 1 .. d : n \in {Over(j, m, q), N(j, m, Twin(Up(m, q)))}
      BY <2>4
    <3>2. m \in Levels /\ G[n] = Flag(m, FALSE, TRUE)
      BY <1>6, <1>9, <3>1
    <3>3. QED
      BY <3>2 DEF Flag, FlagType
  <2>5. QED
    BY <1>1, <2>2, <2>3, <2>4 DEF Path
<1>13. QED
  BY <1>9, <1>10, <1>11, <1>12 DEF Coalescing, G, n0, a

(***************************************************************************)
(* Lists.  A list that starts at hd holds exactly the addresses of S: the  *)
(* links of neighbours agree, only the first has no predecessor, and no    *)
(* ring lies beside it.                                                    *)
(***************************************************************************)
\* The links in the headers H make one list of S, from hd on.
Linked(H, hd, S) ==
  /\ hd # NULL => hd \in S /\ H[hd].prev = NULL
  /\ \A x \in S : /\ H[x].next # NULL => H[x].next \in S /\ H[H[x].next].prev = x
                  /\ H[x].prev # NULL => H[x].prev \in S /\ H[H[x].prev].next = x
                  /\ H[x].prev = NULL => hd = x
  /\ \A R \in SUBSET S : R # {} => \E x \in R : H[x].prev \notin R

\* No header is at NULL.
LEMMA NoAddress == NULL \notin Addresses
BY DEF NULL, Addresses

\* The head of a list is NULL when it has no element, and only then.
LEMMA EmptyList ==
  ASSUME NEW S \in SUBSET Addresses, NEW H, NEW hd, Linked(H, hd, S)
  PROVE  hd = NULL <=> S = {}
<1>1. ASSUME hd = NULL, S # {}
      PROVE  FALSE
  BY <1>1, NoAddress DEF Linked
<1>2. QED
  BY <1>1 DEF Linked

\* A list is one of the links of its elements only.
LEMMA SameList ==
  ASSUME NEW S \in SUBSET Addresses, NEW H, NEW K, NEW hd, Linked(H, hd, S),
         \A x \in S : K[x].next = H[x].next /\ K[x].prev = H[x].prev
  PROVE  Linked(K, hd, S)
<1>1. hd # NULL => hd \in S /\ K[hd].prev = NULL
  BY DEF Linked
<1>2. ASSUME NEW x \in S
      PROVE  /\ K[x].next # NULL => K[x].next \in S /\ K[K[x].next].prev = x
             /\ K[x].prev # NULL => K[x].prev \in S /\ K[K[x].prev].next = x
             /\ K[x].prev = NULL => hd = x
  BY DEF Linked
<1>3. ASSUME NEW R \in SUBSET S, R # {}
      PROVE  \E x \in R : K[x].prev \notin R
  BY <1>3 DEF Linked
<1>4. QED
  BY <1>1, <1>2, <1>3 DEF Linked

\* To pop an element g of a list, wherever it is, leaves the list of the others.
LEMMA Unlinked ==
  ASSUME NEW S \in SUBSET Addresses, NEW H, NEW K, NEW hd, Linked(H, hd, S), NEW g \in S,
         \A x \in S \ {g} : /\ K[x].next = IF H[g].prev = x THEN H[g].next ELSE H[x].next
                            /\ K[x].prev = IF H[g].next = x THEN H[g].prev ELSE H[x].prev
  PROVE  Linked(K, IF H[g].prev = NULL THEN H[g].next ELSE hd, S \ {g})
<1> DEFINE T == S \ {g}
           p == H[g].prev
           n == H[g].next
           first == IF p = NULL THEN n ELSE hd
<1>1. NULL \notin S
  BY NoAddress
<1>2. /\ n # NULL => n \in S /\ H[n].prev = g
      /\ p # NULL => p \in S /\ H[p].next = g
      /\ p = NULL => hd = g
  BY DEF Linked
<1>3. n # g /\ p # g
  <2>1. SUFFICES ASSUME n = g \/ p = g
                 PROVE  FALSE
    OBVIOUS
  <2>2. H[g].prev = g
    BY <1>1, <1>2, <2>1
  <2>3. \A x \in {g} : H[x].prev \in {g}
    BY <2>2
  <2>4. {g} \in SUBSET S /\ {g} # {}
    OBVIOUS
  <2>5. QED
    BY <2>3, <2>4 DEF Linked
<1>4. first # NULL => first \in T /\ K[first].prev = NULL
  BY <1>1, <1>2, <1>3 DEF Linked
<1>5. ASSUME NEW x \in T
      PROVE  /\ K[x].next # NULL => K[x].next \in T /\ K[K[x].next].prev = x
             /\ K[x].prev # NULL => K[x].prev \in T /\ K[K[x].prev].next = x
             /\ K[x].prev = NULL => first = x
  BY <1>1, <1>2, <1>3 DEF Linked
<1>6. ASSUME NEW R \in SUBSET T, R # {}
      PROVE  \E x \in R : K[x].prev \notin R
  <2>1. CASE n \notin R
    BY <1>6, <2>1 DEF Linked
  <2>2. CASE n \in R
    <3>1. R \cup {g} \in SUBSET S /\ R \cup {g} # {}
      OBVIOUS
    <3>2. PICK x \in R \cup {g} : H[x].prev \notin R \cup {g}
      BY <3>1 DEF Linked
    <3>3. CASE x = g
      BY <2>2, <3>2, <3>3
    <3>4. CASE x # g
      BY <1>1, <1>2, <2>2, <3>2, <3>4
    <3>5. QED
      BY <3>3, <3>4
  <2>3. QED
    BY <2>1, <2>2
<1>7. QED
  BY <1>4, <1>5, <1>6 DEF Linked

\* To push an element leaves the list of one more.
LEMMA LinkedFirst ==
  ASSUME NEW S \in SUBSET Addresses, NEW H, NEW K, NEW hd, Linked(H, hd, S),
         NEW g \in Addresses \ S, K[g].prev = NULL, K[g].next = hd,
         \A x \in S : /\ K[x].next = H[x].next
                      /\ K[x].prev = IF x = hd THEN g ELSE H[x].prev
  PROVE  Linked(K, g, S \cup {g})
<1> DEFINE T == S \cup {g}
<1>1. NULL \notin S /\ g # NULL
  BY NoAddress
<1>2. hd # NULL => hd \in S /\ H[hd].prev = NULL
  BY DEF Linked
<1>3. ASSUME NEW x \in T
      PROVE  /\ K[x].next # NULL => K[x].next \in T /\ K[K[x].next].prev = x
             /\ K[x].prev # NULL => K[x].prev \in T /\ K[K[x].prev].next = x
             /\ K[x].prev = NULL => g = x
  BY <1>1, <1>2 DEF Linked
<1>4. ASSUME NEW R \in SUBSET T, R # {}
      PROVE  \E x \in R : K[x].prev \notin R
  <2>1. CASE g \in R
    BY <1>1, <2>1
  <2>2. CASE g \notin R
    BY <1>4, <2>2 DEF Linked
  <2>3. QED
    BY <2>1, <2>2
<1>5. QED
  BY <1>1, <1>3, <1>4 DEF Linked

\* What a header holds.
HeaderType == [prev : Addresses \cup {NULL}, next : Addresses \cup {NULL},
               blockID : (Trees \X Nodes) \cup {NoBlock}]
HeapType   == [flags : [Trees -> [Nodes -> FlagType]], head : [Levels -> Addresses \cup {NULL}],
               hdr : [Addresses -> HeaderType]]

\* The lists of all levels hold the addresses S[l], no two of them the same one.
Lists(h, S) ==
  /\ S \in [Levels -> SUBSET Addresses]
  /\ \A l \in Levels : Linked(h.hdr, h.head[l], S[l])
  /\ \A l, m \in Levels : l # m => S[l] \cap S[m] = {}

After(h, gone, a)  == \E l \in DOMAIN gone : h.hdr[gone[l]].prev = a
\* A popped header was before a.
Before(h, gone, a) == \E l \in DOMAIN gone : h.hdr[gone[l]].next = a
\* What comes next to a, once the header after it is popped.
NextOf(h, gone, a) == h.hdr[gone[CHOOSE l \in DOMAIN gone : h.hdr[gone[l]].prev = a]].next
\* What comes before a, once the header before it is popped.
PrevOf(h, gone, a) == h.hdr[gone[CHOOSE l \in DOMAIN gone : h.hdr[gone[l]].next = a]].prev
\* The headers after the pops of gone, one of each level at most.
PopHdr(h, gone) ==
  [a \in Addresses |->
     IF \E l \in DOMAIN gone : a = gone[l] THEN NoHeader
     ELSE [h.hdr[a] EXCEPT !.next = IF After(h, gone, a) THEN NextOf(h, gone, a) ELSE @,
                           !.prev = IF Before(h, gone, a) THEN PrevOf(h, gone, a) ELSE @]]
\* The heads after those pops.
PopHead(h, gone) ==
  [l \in Levels |-> IF l \in DOMAIN gone /\ h.hdr[gone[l]].prev = NULL
                    THEN h.hdr[gone[l]].next ELSE h.head[l]]

\* PopEach writes those headers and heads.
LEMMA PopEachIs ==
  ASSUME NEW h, NEW gone
  PROVE  PopEach(h, gone) = [h EXCEPT !.hdr = PopHdr(h, gone), !.head = PopHead(h, gone)]
BY DEF PopEach, PopHdr, PopHead, After, Before, NextOf, PrevOf

\* The fields of a header are addresses, or none, and a block.
LEMMA TakenFields ==
  ASSUME NEW h \in HeapType, NEW a \in Addresses
  PROVE  /\ h.hdr[a] \in HeaderType /\ h.hdr[a].prev \in Addresses \cup {NULL}
         /\ h.hdr[a].next \in Addresses \cup {NULL}
         /\ h.hdr[a].blockID \in (Trees \X Nodes) \cup {NoBlock}
<1>1. h.hdr[a] \in HeaderType
  BY DEF HeapType
<1>2. QED
  BY <1>1 DEF HeaderType

\* Popping a block from the list of its level leaves that list without it, the others as they
\* were, and no other header's block changed.
LEMMA PopEachGood ==
  ASSUME NEW h \in HeapType, NEW S, Lists(h, S), NEW gone, DOMAIN gone \subseteq Levels,
         \A l \in DOMAIN gone : gone[l] \in S[l]
  PROVE  /\ PopEach(h, gone) \in HeapType /\ PopEach(h, gone).flags = h.flags
         /\ Lists(PopEach(h, gone),
                  [l \in Levels |-> IF l \in DOMAIN gone THEN S[l] \ {gone[l]} ELSE S[l]])
         /\ \A a \in Addresses : (\A l \in DOMAIN gone : a # gone[l]) =>
              PopEach(h, gone).hdr[a].blockID = h.hdr[a].blockID
<1> DEFINE K == PopHdr(h, gone)
           first == PopHead(h, gone)
           P == PopEach(h, gone)
           T == [l \in Levels |-> IF l \in DOMAIN gone THEN S[l] \ {gone[l]} ELSE S[l]]
<1>1. /\ S \in [Levels -> SUBSET Addresses] /\ \A l \in Levels : Linked(h.hdr, h.head[l], S[l])
      /\ \A l, m \in Levels : l # m => S[l] \cap S[m] = {}
  BY DEF Lists
<1>2. \A l \in DOMAIN gone : /\ l \in Levels /\ gone[l] \in Addresses /\ gone[l] \in S[l]
                             /\ h.hdr[gone[l]].prev \in Addresses \cup {NULL}
                             /\ h.hdr[gone[l]].next \in Addresses \cup {NULL}
  BY <1>1, TakenFields
<1>3. ASSUME NEW a \in Addresses, \A l \in DOMAIN gone : a # gone[l]
      PROVE  /\ K[a] \in HeaderType /\ K[a].blockID = h.hdr[a].blockID
             /\ K[a].next = IF After(h, gone, a) THEN NextOf(h, gone, a) ELSE h.hdr[a].next
             /\ K[a].prev = IF Before(h, gone, a) THEN PrevOf(h, gone, a) ELSE h.hdr[a].prev
  <2>1. h.hdr[a] \in HeaderType
    BY TakenFields
  <2>2. After(h, gone, a) => NextOf(h, gone, a) \in Addresses \cup {NULL}
    BY <1>2 DEF After, NextOf
  <2>3. Before(h, gone, a) => PrevOf(h, gone, a) \in Addresses \cup {NULL}
    BY <1>2 DEF Before, PrevOf
  <2>4. K[a] = [h.hdr[a] EXCEPT
                  !.next = IF After(h, gone, a) THEN NextOf(h, gone, a) ELSE h.hdr[a].next,
                  !.prev = IF Before(h, gone, a) THEN PrevOf(h, gone, a) ELSE h.hdr[a].prev]
    BY <1>3 DEF PopHdr
  <2> HIDE DEF K
  <2>5. QED
    BY <2>1, <2>2, <2>3, <2>4 DEF HeaderType
<1>4. K \in [Addresses -> HeaderType]
  <2>1. K = [a \in Addresses |-> K[a]]
    BY DEF PopHdr
  <2>2. SUFFICES ASSUME NEW a \in Addresses
                 PROVE  K[a] \in HeaderType
    BY <2>1
  <2>3. CASE \E l \in DOMAIN gone : a = gone[l]
    BY <2>3 DEF PopHdr, NoHeader, HeaderType, NULL, NoBlock
  <2>4. QED
    BY <1>3, <2>3
<1>5. first \in [Levels -> Addresses \cup {NULL}]
      /\ \A l \in Levels : first[l] = IF l \in DOMAIN gone /\ h.hdr[gone[l]].prev = NULL
                                      THEN h.hdr[gone[l]].next ELSE h.head[l]
  BY <1>2 DEF HeapType, PopHead
<1>6. P \in HeapType /\ P.flags = h.flags /\ P.hdr = K /\ P.head = first
  BY <1>4, <1>5, PopEachIs DEF HeapType
<1>7. /\ T \in [Levels -> SUBSET Addresses]
      /\ \A l \in Levels : T[l] \subseteq S[l]
      /\ \A l \in Levels : T[l] = IF l \in DOMAIN gone THEN S[l] \ {gone[l]} ELSE S[l]
  BY <1>1
<1> HIDE DEF P, K, first, T
<1>8. ASSUME NEW l \in Levels
      PROVE  Linked(P.hdr, P.head[l], T[l])
  <2>1. ASSUME NEW a \in S[l], NEW m \in DOMAIN gone, l # m
        PROVE  /\ a # gone[m] /\ a # h.hdr[gone[m]].prev /\ a # h.hdr[gone[m]].next
    BY <1>1, <1>2, <2>1, NoAddress DEF Linked
  <2>2. S[l] \in SUBSET Addresses /\ Linked(h.hdr, h.head[l], S[l])
    BY <1>1
  <2>3. CASE l \notin DOMAIN gone
    <3>1. \A x \in S[l] : K[x].next = h.hdr[x].next /\ K[x].prev = h.hdr[x].prev
      <4>1. SUFFICES ASSUME NEW x \in S[l]
                     PROVE  K[x].next = h.hdr[x].next /\ K[x].prev = h.hdr[x].prev
        OBVIOUS
      <4>2. x \in Addresses /\ \A m \in DOMAIN gone : x # gone[m]
        BY <2>1, <2>2, <2>3
      <4>3. ~After(h, gone, x) /\ ~Before(h, gone, x)
        BY <2>1, <2>3 DEF After, Before
      <4>4. QED
        BY <1>3, <4>2, <4>3
    <3>2. Linked(K, h.head[l], S[l])
      BY <2>2, <3>1, SameList
    <3>3. QED
      BY <1>5, <1>6, <1>7, <2>3, <3>2
  <2>4. CASE l \in DOMAIN gone
    <3> DEFINE g == gone[l]
               H == h.hdr
    <3>1. g \in S[l]
      BY <1>2, <2>4
    <3>2. ASSUME NEW x \in S[l] \ {g}
          PROVE  /\ K[x].next = IF H[g].prev = x THEN H[g].next ELSE H[x].next
                 /\ K[x].prev = IF H[g].next = x THEN H[g].prev ELSE H[x].prev
      <4>1. x \in Addresses /\ \A m \in DOMAIN gone : x # gone[m]
        BY <2>1, <2>2, <3>2
      <4>2. \A m \in DOMAIN gone : h.hdr[gone[m]].prev = x => m = l
        BY <2>1
      <4>3. \A m \in DOMAIN gone : h.hdr[gone[m]].next = x => m = l
        BY <2>1
      <4>4. After(h, gone, x) <=> H[g].prev = x
        BY <2>4, <4>2 DEF After
      <4>5. Before(h, gone, x) <=> H[g].next = x
        BY <2>4, <4>3 DEF Before
      <4>6. H[g].prev = x => NextOf(h, gone, x) = H[g].next
        BY <2>4, <4>2 DEF NextOf
      <4>7. H[g].next = x => PrevOf(h, gone, x) = H[g].prev
        BY <2>4, <4>3 DEF PrevOf
      <4>8. QED
        BY <1>3, <4>1, <4>4, <4>5, <4>6, <4>7
    <3> HIDE DEF g, H
    <3>3. Linked(K, IF H[g].prev = NULL THEN H[g].next ELSE h.head[l], S[l] \ {g})
      BY <2>2, <3>1, <3>2, Unlinked DEF H
    <3>4. QED
      BY <1>5, <1>6, <1>7, <2>4, <3>3 DEF g, H
  <2>5. QED
    BY <2>3, <2>4
<1>9. \A l, m \in Levels : l # m => T[l] \cap T[m] = {}
  BY <1>1, <1>7
<1>10. Lists(P, T)
  BY <1>7, <1>8, <1>9 DEF Lists
<1>11. QED
  BY <1>3, <1>6, <1>10 DEF P, T

PlaceOf(new, l)  == Address(new[l], l)
IsNew(new, a)    == \E l \in DOMAIN new : a = PlaceOf(new, l)
NewAt(new, a)    == CHOOSE l \in DOMAIN new : a = PlaceOf(new, l)
\* Header a is the head that a pushed block goes before.
IsHead(h, new, a) == \E l \in DOMAIN new : a = h.head[l]
\* The level whose list it heads.
HeadAt(h, new, a) == CHOOSE l \in DOMAIN new : a = h.head[l]
\* The headers after the pushes of new, one of each level at most.
PushHdr(h, new) ==
  [a \in Addresses |->
     IF IsNew(new, a)
     THEN [prev |-> NULL, next |-> h.head[NewAt(new, a)], blockID |-> new[NewAt(new, a)]]
     ELSE IF IsHead(h, new, a)
     THEN [h.hdr[a] EXCEPT !.prev = PlaceOf(new, HeadAt(h, new, a))]
     ELSE h.hdr[a]]
\* The heads after those pushes.
PushHead(h, new) == [l \in Levels |-> IF l \in DOMAIN new THEN PlaceOf(new, l) ELSE h.head[l]]

\* PushEach writes those headers and heads.
LEMMA PushEachIs ==
  ASSUME NEW h, NEW new
  PROVE  PushEach(h, new) = [h EXCEPT !.hdr = PushHdr(h, new), !.head = PushHead(h, new)]
BY DEF PushEach, PushHdr, PushHead, IsNew, NewAt, IsHead, HeadAt, PlaceOf

\* Pushing a block that no list has on the list of its level adds it to that list, and no other
\* header's block changes.
LEMMA PushEachGood ==
  ASSUME NEW h \in HeapType, NEW S, Lists(h, S), NEW new, DOMAIN new \subseteq Levels,
         \A l \in DOMAIN new : /\ new[l] \in Trees \X Nodes /\ PlaceOf(new, l) \in Addresses
                               /\ \A m \in Levels : PlaceOf(new, l) \notin S[m],
         \A l, m \in DOMAIN new : l # m => PlaceOf(new, l) # PlaceOf(new, m)
  PROVE  /\ PushEach(h, new) \in HeapType /\ PushEach(h, new).flags = h.flags
         /\ Lists(PushEach(h, new),
                  [l \in Levels |-> IF l \in DOMAIN new THEN S[l] \cup {PlaceOf(new, l)} ELSE S[l]])
         /\ \A l \in DOMAIN new : PushEach(h, new).hdr[PlaceOf(new, l)].blockID = new[l]
         /\ \A a \in Addresses : (\A l \in DOMAIN new : a # PlaceOf(new, l)) =>
              PushEach(h, new).hdr[a].blockID = h.hdr[a].blockID
<1> DEFINE K == PushHdr(h, new)
           first == PushHead(h, new)
           P == PushEach(h, new)
           T == [l \in Levels |-> IF l \in DOMAIN new THEN S[l] \cup {PlaceOf(new, l)} ELSE S[l]]
<1>1. /\ S \in [Levels -> SUBSET Addresses] /\ \A l \in Levels : Linked(h.hdr, h.head[l], S[l])
      /\ \A l, m \in Levels : l # m => S[l] \cap S[m] = {}
  BY DEF Lists
<1>2. /\ h.head \in [Levels -> Addresses \cup {NULL}]
      /\ \A l \in Levels : h.head[l] # NULL => h.head[l] \in S[l]
  BY <1>1 DEF HeapType, Linked
<1>3. ASSUME NEW l \in DOMAIN new
      PROVE  /\ K[PlaceOf(new, l)].prev = NULL /\ K[PlaceOf(new, l)].next = h.head[l]
             /\ K[PlaceOf(new, l)].blockID = new[l] /\ K[PlaceOf(new, l)] \in HeaderType
  <2> DEFINE a == PlaceOf(new, l)
  <2>1. IsNew(new, a) /\ NewAt(new, a) = l
    BY DEF IsNew, NewAt
  <2>2. a \in Addresses
    OBVIOUS
  <2> HIDE DEF a
  <2>3. K[a] = [prev |-> NULL, next |-> h.head[l], blockID |-> new[l]]
    BY <2>1, <2>2 DEF PushHdr
  <2>4. h.head[l] \in Addresses \cup {NULL} /\ new[l] \in Trees \X Nodes
    BY <1>2
  <2>5. K[a] \in HeaderType
    BY <2>3, <2>4 DEF HeaderType
  <2>6. K[a].prev = NULL /\ K[a].next = h.head[l] /\ K[a].blockID = new[l]
    BY <2>3
  <2>7. QED
    BY <2>5, <2>6 DEF a
<1>4. ASSUME NEW a \in Addresses, \A l \in DOMAIN new : a # PlaceOf(new, l)
      PROVE  /\ K[a] \in HeaderType /\ K[a].blockID = h.hdr[a].blockID
             /\ K[a].next = h.hdr[a].next
             /\ K[a].prev = IF IsHead(h, new, a) THEN PlaceOf(new, HeadAt(h, new, a))
                            ELSE h.hdr[a].prev
  BY <1>4, TakenFields DEF IsNew, IsHead, HeadAt, PushHdr, HeaderType
<1>5. K \in [Addresses -> HeaderType]
  <2>1. K = [a \in Addresses |-> K[a]]
    BY DEF PushHdr
  <2>2. SUFFICES ASSUME NEW a \in Addresses
                 PROVE  K[a] \in HeaderType
    BY <2>1
  <2>3. QED
    BY <1>3, <1>4
<1>6. first \in [Levels -> Addresses \cup {NULL}]
      /\ \A l \in Levels : first[l] = IF l \in DOMAIN new THEN PlaceOf(new, l) ELSE h.head[l]
  BY <1>2 DEF PushHead
<1>7. P \in HeapType /\ P.flags = h.flags /\ P.hdr = K /\ P.head = first
  BY <1>5, <1>6, PushEachIs DEF HeapType
<1>8. T \in [Levels -> SUBSET Addresses]
      /\ \A l \in Levels : T[l] = IF l \in DOMAIN new THEN S[l] \cup {PlaceOf(new, l)} ELSE S[l]
  BY <1>1
<1> HIDE DEF P, K, first, T
<1>9. ASSUME NEW l \in Levels
      PROVE  Linked(P.hdr, P.head[l], T[l])
  <2>1. ASSUME NEW x \in S[l]
        PROVE  /\ x \in Addresses /\ \A m \in DOMAIN new : x # PlaceOf(new, m)
               /\ \A m \in DOMAIN new : x = h.head[m] => m = l
    BY <1>1, <1>2, NoAddress
  <2>2. S[l] \in SUBSET Addresses /\ Linked(h.hdr, h.head[l], S[l])
    BY <1>1
  <2>3. CASE l \notin DOMAIN new
    <3>1. \A x \in S[l] : K[x].next = h.hdr[x].next /\ K[x].prev = h.hdr[x].prev
      BY <1>4, <2>1, <2>3 DEF IsHead
    <3>2. Linked(K, h.head[l], S[l])
      BY <2>2, <3>1, SameList
    <3>3. QED
      BY <1>6, <1>7, <1>8, <2>3, <3>2
  <2>4. CASE l \in DOMAIN new
    <3> DEFINE g == PlaceOf(new, l)
               H == h.hdr
               hd == h.head[l]
    <3>1. g \in Addresses \ S[l] /\ K[g].prev = NULL /\ K[g].next = hd
      BY <1>3, <2>4
    <3>2. ASSUME NEW x \in S[l]
          PROVE  K[x].next = H[x].next /\ K[x].prev = IF x = hd THEN g ELSE H[x].prev
      BY <1>4, <2>1, <2>4 DEF IsHead, HeadAt
    <3> HIDE DEF g, H, hd
    <3>3. Linked(K, g, S[l] \cup {g})
      BY <2>2, <3>1, <3>2, LinkedFirst DEF H, hd
    <3>4. QED
      BY <1>6, <1>7, <1>8, <2>4, <3>3 DEF g
  <2>5. QED
    BY <2>3, <2>4
<1>10. \A l, m \in Levels : l # m => T[l] \cap T[m] = {}
  <2>1. SUFFICES ASSUME NEW l \in Levels, NEW m \in Levels, l # m, NEW x \in T[l], x \in T[m]
                 PROVE  FALSE
    OBVIOUS
  <2>2. x \in S[l] \/ (l \in DOMAIN new /\ x = PlaceOf(new, l))
    BY <1>8
  <2>3. x \in S[m] \/ (m \in DOMAIN new /\ x = PlaceOf(new, m))
    BY <1>8, <2>1
  <2>4. ~(x \in S[l] /\ x \in S[m])
    BY <1>1, <2>1
  <2>5. QED
    BY <2>1, <2>2, <2>3, <2>4
<1>11. Lists(P, T)
  BY <1>8, <1>9, <1>10 DEF Lists
<1>12. \A l \in DOMAIN new : K[PlaceOf(new, l)].blockID = new[l]
  BY <1>3
<1>13. QED
  BY <1>4, <1>7, <1>11, <1>12 DEF P, T

(***************************************************************************)
(* Free blocks and their first pages.                                      *)
(***************************************************************************)
\* Node i of level l in chunk j of tree t, as the code names it.
Block(t, j, l, i) == <<t, N(j, l, i)>>
Spot(t, j, l, i)  == <<t, j * 2 ^ Depth + i * Width(l)>>
\* Node i of level l in chunk j of tree t is free.
FreeNode(FL, C, t, j, l, i) ==
  t \in Trees /\ j \in 0 .. C[t] - 1 /\ i \in At(l) /\ FL[t][N(j, l, i)].free
\* The addresses of the free nodes, by level: what each list should hold.
FreeAt(FL, C) ==
  [l \in Levels |-> {x \in Addresses : \E t \in Trees : \E j \in 0 .. C[t] - 1, i \in At(l) :
                       x = Spot(t, j, l, i) /\ FL[t][N(j, l, i)].free}]

\* What the flags of all trees hold.
FlagsType == [Trees -> [Nodes -> FlagType]]

\* All trees are trees, and the pages of flags are in use.
Forest(FL, C) == /\ FL \in FlagsType /\ C \in [Trees -> ChunkCounts \cup {0}]
                 /\ \A t \in Trees : Tree(FL[t], C[t])
Kept(FL, C)   == \A t \in Trees : C[t] > 0 => FL[t][FlagsNode] = InUseFlag(Depth)

\* The header of a free block names that block.
Named(h, C) == \A t \in Trees, l \in Levels : \A j \in 0 .. C[t] - 1, i \in At(l) :
                 h.flags[t][N(j, l, i)].free => h.hdr[Spot(t, j, l, i)].blockID = Block(t, j, l, i)

\* A tree has at most MaxChunks chunks.
LEMMA Chunks ==
  ASSUME NEW C \in [Trees -> ChunkCounts \cup {0}], NEW t \in Trees
  PROVE  C[t] \in 0 .. MaxChunks /\ MaxChunks \in Nat /\ C[t] \in Nat
<1>1. MaxChunks \in Nat /\ \A c \in ChunkCounts : c \in Nat /\ c <= MaxChunks
  BY Constants
<1>2. C[t] \in ChunkCounts \/ C[t] = 0
  OBVIOUS
<1>3. QED
  BY <1>1, <1>2

\* A node's address and number are in range.
LEMMA SpotIn ==
  ASSUME NEW t \in Trees, NEW c \in 0 .. MaxChunks, NEW j \in 0 .. c - 1, NEW l \in Levels,
         NEW i \in At(l)
  PROVE  Spot(t, j, l, i) \in Addresses /\ N(j, l, i) \in Nodes /\ j \in Nat
<1> DEFINE h == 2 ^ Depth
           q == i * Width(l)
<1>1. q \in 0 .. h - 1 /\ h \in Nat \ {0} /\ MaxChunks \in Nat
  BY FirstPage, SlotsAre, Constants DEF InChunk
<1> HIDE DEF q, h
<1>2. j * h + q \in 0 .. MaxChunks * h - 1
  BY <1>1
<1>3. QED
  BY <1>2, InNodes DEF Spot, Addresses, h, q

\* Two blocks of one level have two addresses.
LEMMA SpotOne ==
  ASSUME NEW t, NEW j \in Nat, NEW l \in Levels, NEW i \in At(l),
         NEW u, NEW k \in Nat, NEW m \in Levels, NEW e \in At(m), Spot(t, j, l, i) = Spot(u, k, m, e)
  PROVE  /\ t = u /\ j = k /\ i * Width(l) = e * Width(m)
         /\ l = m => i = e
<1> DEFINE h == 2 ^ Depth
           q == i * Width(l)
           r == e * Width(m)
<1>1. q \in 0 .. h - 1 /\ r \in 0 .. h - 1 /\ h \in Nat \ {0} /\ Up(l, q) = i /\ Up(m, r) = e
  BY FirstPage, SlotsAre DEF InChunk
<1>2. t = u /\ j * h + q = k * h + r
  BY DEF Spot
<1> HIDE DEF q, r, h
<1>3. j = k /\ q = r
  <2> DEFINE x == j * h + q
  <2>1. x = h * j + q /\ x = h * k + r /\ x \in Nat
    BY <1>1, <1>2
  <2> HIDE DEF x
  <2>2. h \in Nat \ {0} /\ q \in 0 .. h - 1 /\ r \in 0 .. h - 1 /\ j \in Int /\ k \in Int
    BY <1>1
  <2>3. x \div h = j /\ x % h = q
    BY <2>1, <2>2, Quotient
  <2>4. x \div h = k /\ x % h = r
    BY <2>1, <2>2, Quotient
  <2>5. QED
    BY <2>3, <2>4
<1>4. QED
  BY <1>1, <1>2, <1>3 DEF q, r

\* What it is to be at the address of a free node.
LEMMA FreeAtIs ==
  ASSUME NEW FL, NEW C \in [Trees -> ChunkCounts \cup {0}], NEW l \in Levels
  PROVE  /\ FreeAt(FL, C) \in [Levels -> SUBSET Addresses]
         /\ \A t, j, i : FreeNode(FL, C, t, j, l, i) => Spot(t, j, l, i) \in FreeAt(FL, C)[l]
         /\ \A x \in FreeAt(FL, C)[l] : x \in Addresses
                                        /\ \E t, j, i : FreeNode(FL, C, t, j, l, i) /\ x = Spot(t, j, l, i)
<1>1. FreeAt(FL, C) \in [Levels -> SUBSET Addresses]
  BY DEF FreeAt
<1>2. ASSUME NEW t, NEW j, NEW i, FreeNode(FL, C, t, j, l, i)
      PROVE  Spot(t, j, l, i) \in FreeAt(FL, C)[l]
  BY <1>2, Chunks, SpotIn DEF FreeNode, FreeAt
<1>3. \A x \in FreeAt(FL, C)[l] : x \in Addresses
        /\ \E t, j, i : FreeNode(FL, C, t, j, l, i) /\ x = Spot(t, j, l, i)
  BY DEF FreeAt, FreeNode
<1>4. QED
  BY <1>1, <1>2, <1>3

\* No two free blocks begin at the same page.
LEMMA OneSpot ==
  ASSUME NEW FL, NEW C, Forest(FL, C), NEW t, NEW j, NEW l \in Levels, NEW i,
         NEW u, NEW k, NEW m \in Levels, NEW e, FreeNode(FL, C, t, j, l, i),
         FreeNode(FL, C, u, k, m, e), Spot(t, j, l, i) = Spot(u, k, m, e)
  PROVE  t = u /\ j = k /\ l = m /\ i = e
<1>1. /\ t \in Trees /\ j \in 0 .. C[t] - 1 /\ i \in At(l) /\ FL[t][N(j, l, i)].free
      /\ u \in Trees /\ k \in 0 .. C[u] - 1 /\ e \in At(m) /\ FL[u][N(k, m, e)].free
  BY DEF FreeNode
<1>2. j \in Nat /\ k \in Nat
  BY <1>1, Chunks DEF Forest
<1>3. t = u /\ j = k /\ i * Width(l) = e * Width(m) /\ (l = m => i = e)
  BY <1>1, <1>2, SpotOne
<1> DEFINE q == i * Width(l)
<1>4. q \in InChunk /\ Up(l, q) = i /\ Up(m, q) = e
  BY <1>1, <1>3, FirstPage
<1>5. Leaf(FL[t], Over(j, l, q)) /\ Leaf(FL[t], Over(j, m, q))
  BY <1>1, <1>3, <1>4 DEF Leaf, Over
<1> HIDE DEF q
<1>6. Covered(FL[t], C[t])
  BY <1>1 DEF Forest, Tree
<1>7. l = m
  BY <1>1, <1>4, <1>5, <1>6, OneLeaf
<1>8. QED
  BY <1>3, <1>7

\* The first part of the inductive invariant: trees with one leaf over every page, the flags
\* their nodes call for, and lists of exactly the free blocks whose headers name them.
Listed(h, C) ==
  h \in HeapType /\ Forest(h.flags, C) /\ Lists(h, FreeAt(h.flags, C)) /\ Named(h, C)

\* the lists of the free blocks without those of new
Without(FL, C, new) ==
  [l \in Levels |-> IF l \in DOMAIN new THEN FreeAt(FL, C)[l] \ {PlaceOf(new, l)} ELSE FreeAt(FL, C)[l]]
\* The headers of the free blocks name them, but for those of new, which are still to be pushed.
NamedBut(h, C, new) ==
  \A t \in Trees, l \in Levels : \A j \in 0 .. C[t] - 1, i \in At(l) :
    h.flags[t][N(j, l, i)].free =>
      \/ l \in DOMAIN new /\ new[l] = Block(t, j, l, i)
      \/ h.hdr[Spot(t, j, l, i)].blockID = Block(t, j, l, i)
\* The block of new at level l is free by the flags.
FreeBlockOf(FL, C, new, l) ==
  \E t, j, i : FreeNode(FL, C, t, j, l, i) /\ new[l] = Block(t, j, l, i)
\* So is every block of new.
AllFree(FL, C, new) == \A l \in DOMAIN new : FreeBlockOf(FL, C, new, l)

\* A free block is at the address of its node.
LEMMA PlaceIs ==
  ASSUME NEW C \in [Trees -> ChunkCounts \cup {0}], NEW FL, NEW l \in Levels,
         NEW t, NEW j, NEW i, FreeNode(FL, C, t, j, l, i)
  PROVE  /\ Address(Block(t, j, l, i), l) = Spot(t, j, l, i) /\ Spot(t, j, l, i) \in Addresses
         /\ Block(t, j, l, i) \in Trees \X Nodes
         /\ j \in Nat /\ i \in At(l) /\ t \in Trees
<1>1. t \in Trees /\ j \in 0 .. C[t] - 1 /\ i \in At(l)
  BY DEF FreeNode
<1>2. Spot(t, j, l, i) \in Addresses /\ N(j, l, i) \in Nodes /\ j \in Nat
  BY <1>1, Chunks, SpotIn
<1>3. Address(Block(t, j, l, i), l) = Spot(t, j, l, i)
  BY <1>1, <1>2, AddressIs DEF Spot, Block
<1>4. Block(t, j, l, i) \in Trees \X Nodes
  BY <1>1, <1>2 DEF Block
<1>5. QED
  BY <1>1, <1>2, <1>3, <1>4

\* Once the flags are written and the lists lack only the blocks of new, the push of those leaves
\* the lists sound.
LEMMA Relisted ==
  ASSUME NEW h \in HeapType, NEW C, Forest(h.flags, C), NEW new, DOMAIN new \subseteq Levels,
         AllFree(h.flags, C, new),
         Lists(h, Without(h.flags, C, new)), NamedBut(h, C, new)
  PROVE  Listed(PushEach(h, new), C) /\ PushEach(h, new).flags = h.flags
<1> DEFINE FL == h.flags
           S == Without(FL, C, new)
           A == FreeAt(FL, C)
           P == PushEach(h, new)
<1>1. C \in [Trees -> ChunkCounts \cup {0}]
  BY DEF Forest
<1>2. A \in [Levels -> SUBSET Addresses]
      /\ \A l \in Levels : S[l] = IF l \in DOMAIN new THEN A[l] \ {PlaceOf(new, l)} ELSE A[l]
  BY DEF FreeAt, Without
<1> HIDE DEF A, S, P
<1>3. ASSUME NEW l \in DOMAIN new
      PROVE  /\ l \in Levels /\ new[l] \in Trees \X Nodes /\ PlaceOf(new, l) \in Addresses
             /\ PlaceOf(new, l) \in A[l]
             /\ \A m \in Levels : PlaceOf(new, l) \notin S[m]
             /\ \A m \in DOMAIN new : l # m => PlaceOf(new, l) # PlaceOf(new, m)
  <2>1. l \in Levels
    OBVIOUS
  <2>2. PICK t, j, i : FreeNode(FL, C, t, j, l, i) /\ new[l] = Block(t, j, l, i)
    BY DEF AllFree, FreeBlockOf
  <2>3. PlaceOf(new, l) = Spot(t, j, l, i) /\ PlaceOf(new, l) \in Addresses
        /\ new[l] \in Trees \X Nodes
    BY <1>1, <2>1, <2>2, PlaceIs DEF PlaceOf
  <2>4. ASSUME NEW m \in Levels, PlaceOf(new, l) \in A[m]
        PROVE  m = l
    BY <1>1, <2>1, <2>2, <2>3, <2>4, FreeAtIs, OneSpot DEF A
  <2>5. \A m \in Levels : PlaceOf(new, l) \notin S[m]
    BY <1>2, <2>4
  <2>6. ASSUME NEW m \in DOMAIN new, l # m
        PROVE  PlaceOf(new, l) # PlaceOf(new, m)
    BY <1>1, <2>4, <2>6, PlaceIs, FreeAtIs DEF AllFree, FreeBlockOf, PlaceOf, A
  <2>7. PlaceOf(new, l) \in A[l]
    BY <1>1, <2>1, <2>2, <2>3, FreeAtIs DEF A
  <2>8. QED
    BY <2>1, <2>3, <2>5, <2>6, <2>7
<1>4. /\ P \in HeapType /\ P.flags = h.flags
      /\ Lists(P, [l \in Levels |-> IF l \in DOMAIN new THEN S[l] \cup {PlaceOf(new, l)} ELSE S[l]])
      /\ \A l \in DOMAIN new : P.hdr[PlaceOf(new, l)].blockID = new[l]
      /\ \A x \in Addresses : (\A l \in DOMAIN new : x # PlaceOf(new, l)) =>
              P.hdr[x].blockID = h.hdr[x].blockID
  BY <1>3, PushEachGood DEF S, P
<1>5. [l \in Levels |-> IF l \in DOMAIN new THEN S[l] \cup {PlaceOf(new, l)} ELSE S[l]] = A
  <2>1. \A l \in Levels : (IF l \in DOMAIN new THEN S[l] \cup {PlaceOf(new, l)} ELSE S[l]) = A[l]
    <3>1. SUFFICES ASSUME NEW l \in Levels
                   PROVE  (IF l \in DOMAIN new THEN S[l] \cup {PlaceOf(new, l)} ELSE S[l]) = A[l]
      OBVIOUS
    <3>2. CASE l \notin DOMAIN new
      BY <1>2, <3>2
    <3>3. CASE l \in DOMAIN new
      <4>1. PlaceOf(new, l) \in A[l] /\ S[l] = A[l] \ {PlaceOf(new, l)}
        BY <1>2, <1>3, <3>3
      <4>2. QED
        BY <3>3, <4>1
    <3>4. QED
      BY <3>2, <3>3
  <2>2. QED
    BY <1>2, <2>1
<1>6. ASSUME NEW t \in Trees, NEW l \in Levels, NEW j \in 0 .. C[t] - 1, NEW i \in At(l),
             FL[t][N(j, l, i)].free
      PROVE  P.hdr[Spot(t, j, l, i)].blockID = Block(t, j, l, i)
  <2>1. FreeNode(FL, C, t, j, l, i) /\ Spot(t, j, l, i) \in Addresses
    BY <1>1, <1>6, Chunks, SpotIn DEF FreeNode
  <2>2. CASE \E m \in DOMAIN new : Spot(t, j, l, i) = PlaceOf(new, m)
    BY <1>1, <1>4, <2>1, <2>2, PlaceIs, OneSpot DEF AllFree, FreeBlockOf, PlaceOf
  <2>3. CASE ~(\E m \in DOMAIN new : Spot(t, j, l, i) = PlaceOf(new, m))
    BY <1>1, <1>4, <1>6, <2>1, <2>3, PlaceIs DEF PlaceOf, NamedBut
  <2>4. QED
    BY <2>2, <2>3
<1>7. Named(P, C)
  BY <1>4, <1>6 DEF Named
<1>8. QED
  BY <1>4, <1>5, <1>7 DEF Listed, A, P

\* A block is one node of one tree.
LEMMA BlockOne ==
  ASSUME NEW t, NEW j \in Nat, NEW l \in Levels, NEW i \in At(l),
         NEW u, NEW k \in Nat, NEW m \in Levels, NEW e \in At(m), Block(t, j, l, i) = Block(u, k, m, e)
  PROVE  t = u /\ j = k /\ l = m /\ i = e
<1>1. t = u /\ N(j, l, i) = N(k, m, e)
  BY DEF Block
<1>2. QED
  BY <1>1, OneNumber

\* Block b is the one of new at level l.
Among(new, l, b) == l \in DOMAIN new /\ new[l] = b

\* The addresses of the free blocks that are not among new.
LEMMA WithoutIs ==
  ASSUME NEW FL, NEW C \in [Trees -> ChunkCounts \cup {0}], NEW new,
         AllFree(FL, C, new), NEW l \in Levels, NEW x
  PROVE  x \in Without(FL, C, new)[l] <=>
           \E t, j, i : /\ FreeNode(FL, C, t, j, l, i) /\ x = Spot(t, j, l, i)
                        /\ ~Among(new, l, Block(t, j, l, i))
<1>1. x \in FreeAt(FL, C)[l] <=> \E t, j, i : FreeNode(FL, C, t, j, l, i) /\ x = Spot(t, j, l, i)
  BY FreeAtIs
<1>2. CASE l \notin DOMAIN new
  BY <1>1, <1>2 DEF Without, Among
<1>3. CASE l \in DOMAIN new
  BY <1>1, <1>3, PlaceIs, BlockOne, SpotOne DEF AllFree, FreeBlockOf, PlaceOf, Without, Among
<1>4. QED
  BY <1>2, <1>3

\* The lists without what left them are the lists without what will enter them.
LEMMA Moved ==
  ASSUME NEW FL, NEW FM, NEW C \in [Trees -> ChunkCounts \cup {0}], NEW old, NEW new,
         AllFree(FL, C, old), AllFree(FM, C, new),
         \A l \in Levels : \A t, j, i :
           FreeNode(FL, C, t, j, l, i) /\ ~Among(old, l, Block(t, j, l, i))
             <=> FreeNode(FM, C, t, j, l, i) /\ ~Among(new, l, Block(t, j, l, i))
  PROVE  Without(FL, C, old) = Without(FM, C, new)
<1>1. ASSUME NEW l \in Levels
      PROVE  Without(FL, C, old)[l] = Without(FM, C, new)[l]
  <2>1. \A x : x \in Without(FL, C, old)[l] <=> x \in Without(FM, C, new)[l]
    <3>1. SUFFICES ASSUME NEW x
                   PROVE  x \in Without(FL, C, old)[l] <=> x \in Without(FM, C, new)[l]
      OBVIOUS
    <3>2. x \in Without(FL, C, old)[l] <=>
            \E t, j, i : /\ FreeNode(FL, C, t, j, l, i) /\ x = Spot(t, j, l, i)
                         /\ ~Among(old, l, Block(t, j, l, i))
      <4>1. AllFree(FL, C, old) /\ C \in [Trees -> ChunkCounts \cup {0}] /\ l \in Levels
        OBVIOUS
      <4>2. QED
        BY ONLY <4>1, WithoutIs
    <3>3. x \in Without(FM, C, new)[l] <=>
            \E t, j, i : /\ FreeNode(FM, C, t, j, l, i) /\ x = Spot(t, j, l, i)
                         /\ ~Among(new, l, Block(t, j, l, i))
      BY WithoutIs
    <3>4. QED
      BY <3>2, <3>3
  <2>2. QED
    BY <2>1
<1>2. QED
  BY <1>1 DEF Without

\* Two heaps with the same headers and heads.
SameLists(h, g) == g.hdr = h.hdr /\ g.head = h.head

\* To write the flags of a tree changes nothing else.
LEMMA WithFlags ==
  ASSUME NEW h \in HeapType, NEW t \in Trees, NEW F \in [Nodes -> FlagType]
  PROVE  LET g == [h EXCEPT !.flags[t] = F]
         IN  /\ g \in HeapType /\ SameLists(h, g)
             /\ g.flags = [h.flags EXCEPT ![t] = F]
             /\ g.flags[t] = F /\ \A u \in Trees \ {t} : g.flags[u] = h.flags[u]
<1> DEFINE g == [h EXCEPT !.flags[t] = F]
           K == [h.flags EXCEPT ![t] = F]
<1>1. h.flags \in [Trees -> [Nodes -> FlagType]]
  BY DEF HeapType
<1>2. K \in [Trees -> [Nodes -> FlagType]] /\ K[t] = F /\ \A u \in Trees \ {t} : K[u] = h.flags[u]
  BY <1>1
<1>3. g = [h EXCEPT !.flags = K]
  OBVIOUS
<1> HIDE DEF K, g
<1>4. g \in HeapType /\ SameLists(h, g) /\ g.flags = K
  BY <1>2, <1>3 DEF HeapType, SameLists
<1>5. QED
  BY <1>2, <1>4 DEF K, g

\* The lists do not depend on the flags.
LEMMA ListsOf ==
  ASSUME NEW h, NEW g, SameLists(h, g), NEW S, Lists(h, S)
  PROVE  Lists(g, S)
BY DEF SameLists, Lists

\* The block at a is free but listed no more: the division puts its right halves on
\* their lists.
Alone(l, b) == [x \in {l} |-> b]

\* A block taken off its list and split leaves the trees and the lists sound: its way down
\* is divided, and its halves are listed.
LEMMA SplitGood ==
  ASSUME NEW h \in HeapType, NEW C, Forest(h.flags, C), NEW t \in Trees, NEW j \in 0 .. C[t] - 1,
         NEW a \in Levels, NEW i \in At(a), NEW d \in Levels, a <= d,
         h.flags[t][N(j, a, i)].free,
         Lists(h, Without(h.flags, C, Alone(a, Block(t, j, a, i)))),
         NamedBut(h, C, Alone(a, Block(t, j, a, i)))
  PROVE  LET q == i * Width(a)
             R == Split(h, Block(t, j, a, i), a, d)
         IN  /\ Listed(R.heap, C) /\ R.block = <<t, Over(j, d, q)>>
             /\ Divided(R.heap.flags[t], h.flags[t], j, q, a, d)
             /\ \A u \in Trees \ {t} : R.heap.flags[u] = h.flags[u]
<1> DEFINE q == i * Width(a)
           n0 == N(j, a, i)
           b == Block(t, j, a, i)
           F == h.flags[t]
           G == SplitFlags(F, n0, a, d)
           g == [h EXCEPT !.flags[t] = G]
           old == Alone(a, b)
           new == Rights(t, n0, a, d)
           R == Split(h, b, a, d)
           c == C[t]
<1>1. /\ C \in [Trees -> ChunkCounts \cup {0}] /\ c \in 0 .. MaxChunks /\ j \in Nat
      /\ F \in [Nodes -> FlagType] /\ Tree(F, c) /\ q \in InChunk /\ Up(a, q) = i
      /\ a \in Nat /\ d \in Nat /\ Depth \in Nat /\ d <= Depth
  BY Chunks, FirstPage, Widths, Constants DEF Forest, Tree
<1>2. Divided(G, F, j, q, a, d)
  BY <1>1, SplitDivides
<1>3. R = [heap |-> PushEach(g, new), block |-> <<t, Left(n0, a, d)>>]
  BY SplitIs DEF Block
<1>4. Left(n0, a, d) = Over(j, d, q)
  BY <1>1, LeftIs
<1>5. DOMAIN new = a + 1 .. d /\ \A l \in DOMAIN new : /\ l \in Levels \ {0}
                                                       /\ new[l] = Block(t, j, l, Twin(Up(l, q)))
  BY <1>1, LeftIs DEF Rights, Levels, Block
<1>6. DOMAIN old = {a} /\ old[a] = b
  BY DEF Alone
<1>7. Over(j, a, q) = n0
  BY <1>1 DEF Over
<1> HIDE DEF q, n0, G, g, old, new, R, F, c, b
<1>8. /\ Tree(G, c)
      /\ \A m \in a + 1 .. d : ~F[N(j, m, Twin(Up(m, q)))].free
      /\ \A k \in 0 .. c - 1, l \in Levels : \A e \in At(l) :
           G[N(k, l, e)].free <=>
                \/ k = j /\ l \in a + 1 .. d /\ e = Twin(Up(l, q))
                \/ F[N(k, l, e)].free /\ ~(k = j /\ l = a /\ e = Up(a, q))
  BY <1>1, <1>2, <1>7, DividedTree DEF F, n0, c
<1>9. /\ g \in HeapType /\ SameLists(h, g) /\ g.flags[t] = G
      /\ \A u \in Trees \ {t} : g.flags[u] = h.flags[u]
  BY <1>2, WithFlags DEF Divided, g
<1>10. Forest(g.flags, C)
  BY <1>1, <1>8, <1>9 DEF Forest, c, HeapType, FlagsType
<1>11. \A m \in a + 1 .. d : Up(m, q) \in At(m) /\ Twin(Up(m, q)) \in At(m) /\ m \in Levels
  BY <1>1, PathNodes DEF c
<1>12. AllFree(h.flags, C, old)
  BY <1>6 DEF FreeNode, b, AllFree, FreeBlockOf
<1>13. AllFree(g.flags, C, new)
  <2>1. SUFFICES ASSUME NEW l \in a + 1 .. d
                 PROVE  FreeBlockOf(g.flags, C, new, l)
    BY <1>5 DEF AllFree
  <2>2. FreeNode(g.flags, C, t, j, l, Twin(Up(l, q)))
    BY <1>8, <1>9, <1>11 DEF c, FreeNode
  <2>3. QED
    BY <1>5, <2>2 DEF FreeBlockOf
<1>14. ASSUME NEW l \in Levels, NEW u, NEW k, NEW e
       PROVE  FreeNode(h.flags, C, u, k, l, e) /\ ~Among(old, l, Block(u, k, l, e))
                <=> FreeNode(g.flags, C, u, k, l, e) /\ ~Among(new, l, Block(u, k, l, e))
  <2>1. SUFFICES ASSUME u \in Trees, k \in 0 .. C[u] - 1, e \in At(l)
                 PROVE  h.flags[u][N(k, l, e)].free /\ ~Among(old, l, Block(u, k, l, e))
                          <=> g.flags[u][N(k, l, e)].free /\ ~Among(new, l, Block(u, k, l, e))
    BY DEF FreeNode
  <2>2. k \in Nat
    BY <1>1, <2>1, Chunks
  <2>3. Among(old, l, Block(u, k, l, e)) <=> u = t /\ k = j /\ l = a /\ e = i
    <3>1. Among(old, l, Block(u, k, l, e)) => u = t /\ k = j /\ l = a /\ e = i
      <4>1. SUFFICES ASSUME Among(old, l, Block(u, k, l, e))
                     PROVE  u = t /\ k = j /\ l = a /\ e = i
        OBVIOUS
      <4>2. Block(u, k, l, e) = Block(t, j, a, i)
        BY <1>6, <4>1 DEF Among, b
      <4>3. QED
        BY <1>1, <2>1, <2>2, <4>2, BlockOne
    <3>2. QED
      BY <1>6, <3>1 DEF Among, b
  <2>4. Among(new, l, Block(u, k, l, e)) <=> u = t /\ k = j /\ l \in a + 1 .. d /\ e = Twin(Up(l, q))
    <3>1. Among(new, l, Block(u, k, l, e)) => u = t /\ k = j /\ l \in a + 1 .. d /\ e = Twin(Up(l, q))
      <4>1. SUFFICES ASSUME Among(new, l, Block(u, k, l, e))
                     PROVE  u = t /\ k = j /\ l \in a + 1 .. d /\ e = Twin(Up(l, q))
        OBVIOUS
      <4>2. Block(u, k, l, e) = Block(t, j, l, Twin(Up(l, q))) /\ l \in a + 1 .. d
        BY <1>5, <4>1 DEF Among
      <4>3. QED
        BY <1>1, <1>11, <2>1, <2>2, <4>2, BlockOne
    <3>2. QED
      BY <1>5, <3>1 DEF Among
  <2>5. CASE u # t
    BY <1>9, <2>1, <2>3, <2>4, <2>5
  <2>6. CASE u = t
    BY <1>1, <1>8, <1>9, <2>1, <2>3, <2>4, <2>6 DEF c, F
  <2>7. QED
    BY <2>5, <2>6
<1>15. Lists(g, Without(g.flags, C, new))
  <2>1. Without(h.flags, C, old) = Without(g.flags, C, new)
    BY <1>1, <1>12, <1>13, <1>14, Moved
  <2>2. Lists(h, Without(h.flags, C, old))
    BY DEF old, b
  <2>3. QED
    BY <1>9, <2>1, <2>2, ListsOf
<1>16. NamedBut(g, C, new)
  <2>1. SUFFICES ASSUME NEW u \in Trees, NEW l \in Levels, NEW k \in 0 .. C[u] - 1, NEW e \in At(l),
                        g.flags[u][N(k, l, e)].free, ~Among(new, l, Block(u, k, l, e))
                 PROVE  g.hdr[Spot(u, k, l, e)].blockID = Block(u, k, l, e)
    BY DEF NamedBut, Among
  <2>2. h.flags[u][N(k, l, e)].free /\ ~Among(old, l, Block(u, k, l, e))
    BY <1>14, <2>1 DEF FreeNode
  <2>3. NamedBut(h, C, old)
    BY DEF old, b
  <2>4. QED
    BY <1>9, <2>2, <2>3 DEF NamedBut, Among, SameLists
<1>17. Listed(PushEach(g, new), C) /\ PushEach(g, new).flags = g.flags
  BY <1>5, <1>9, <1>10, <1>13, <1>15, <1>16, Relisted
<1>18. R.heap = PushEach(g, new) /\ R.block = <<t, Left(n0, a, d)>>
  BY <1>3
<1>19. QED
  BY <1>2, <1>4, <1>9, <1>17, <1>18 DEF R, q, b, F

\* Popping free blocks off their lists.
LEMMA PoppedOff ==
  ASSUME NEW h, NEW C, Listed(h, C), NEW old, NEW gone, DOMAIN old \subseteq Levels,
         AllFree(h.flags, C, old), DOMAIN gone = DOMAIN old,
         \A l \in DOMAIN gone : gone[l] = PlaceOf(old, l)
  PROVE  /\ PopEach(h, gone) \in HeapType /\ PopEach(h, gone).flags = h.flags
         /\ Lists(PopEach(h, gone), Without(h.flags, C, old))
         /\ NamedBut(PopEach(h, gone), C, old)
<1> DEFINE S == FreeAt(h.flags, C)
           P == PopEach(h, gone)
<1>1. /\ h \in HeapType /\ Forest(h.flags, C) /\ Lists(h, S) /\ Named(h, C)
      /\ C \in [Trees -> ChunkCounts \cup {0}]
  BY DEF Listed, Forest
<1>2. ASSUME NEW l \in DOMAIN old
      PROVE  \E t, j, i : /\ FreeNode(h.flags, C, t, j, l, i) /\ old[l] = Block(t, j, l, i)
                          /\ gone[l] = Spot(t, j, l, i) /\ gone[l] \in S[l]
  BY <1>1, PlaceIs, FreeAtIs DEF AllFree, FreeBlockOf, PlaceOf
<1> HIDE DEF P, S
<1>3. /\ P \in HeapType /\ P.flags = h.flags
      /\ Lists(P, [l \in Levels |-> IF l \in DOMAIN gone THEN S[l] \ {gone[l]} ELSE S[l]])
      /\ \A x \in Addresses : (\A l \in DOMAIN gone : x # gone[l]) =>
           P.hdr[x].blockID = h.hdr[x].blockID
  <2>1. \A l \in DOMAIN gone : gone[l] \in S[l]
    BY <1>2
  <2>2. DOMAIN gone \subseteq Levels
    OBVIOUS
  <2>3. QED
    BY <1>1, <2>1, <2>2, PopEachGood DEF P
<1>4. [l \in Levels |-> IF l \in DOMAIN gone THEN S[l] \ {gone[l]} ELSE S[l]]
        = Without(h.flags, C, old)
  BY DEF Without, S
<1>5. ASSUME NEW t \in Trees, NEW l \in Levels, NEW j \in 0 .. C[t] - 1, NEW i \in At(l),
             h.flags[t][N(j, l, i)].free, ~(l \in DOMAIN old /\ old[l] = Block(t, j, l, i))
      PROVE  P.hdr[Spot(t, j, l, i)].blockID = Block(t, j, l, i)
  <2>1. FreeNode(h.flags, C, t, j, l, i)
    BY <1>5 DEF FreeNode
  <2>2. Spot(t, j, l, i) \in Addresses
    BY <1>1, <2>1, PlaceIs
  <2>3. ASSUME NEW m \in DOMAIN gone, Spot(t, j, l, i) = gone[m]
        PROVE  FALSE
    BY <1>1, <1>2, <1>5, <2>1, <2>3, OneSpot
  <2>4. P.hdr[Spot(t, j, l, i)].blockID = h.hdr[Spot(t, j, l, i)].blockID
    BY <1>3, <2>2, <2>3
  <2>5. QED
    BY <1>1, <1>5, <2>4 DEF Named
<1>6. NamedBut(P, C, old)
  BY <1>3, <1>5 DEF NamedBut
<1>7. QED
  BY <1>3, <1>4, <1>6 DEF P

\* One division of the first block of a list.
LEMMA DivideGood ==
  ASSUME NEW h, NEW C, Listed(h, C), NEW a \in Levels, NEW d \in Levels, a <= d,
         h.head[a] # NULL
  PROVE  LET R == Divide(h, h.head[a], a, d)
         IN  /\ Listed(R.heap, C)
             /\ \E t \in Trees : \E j \in 0 .. C[t] - 1, i \in At(a) :
                  /\ h.flags[t][N(j, a, i)].free
                  /\ R.block = <<t, Over(j, d, i * Width(a))>>
                  /\ Divided(R.heap.flags[t], h.flags[t], j, i * Width(a), a, d)
                  /\ \A u \in Trees \ {t} : R.heap.flags[u] = h.flags[u]
<1> DEFINE x == h.head[a]
           S == FreeAt(h.flags, C)
           P == PopEach(h, Alone(a, x))
<1>1. /\ h \in HeapType /\ Forest(h.flags, C) /\ Lists(h, S) /\ Named(h, C)
      /\ C \in [Trees -> ChunkCounts \cup {0}]
  BY DEF Listed, Forest
<1>2. x \in S[a]
  BY <1>1 DEF Lists, Linked
<1>3. PICK t, j, i : FreeNode(h.flags, C, t, j, a, i) /\ x = Spot(t, j, a, i)
  BY <1>1, <1>2, FreeAtIs
<1>4. t \in Trees /\ j \in 0 .. C[t] - 1 /\ i \in At(a) /\ h.flags[t][N(j, a, i)].free
  BY <1>3 DEF FreeNode
<1> DEFINE b == Block(t, j, a, i)
<1>5. h.hdr[x].blockID = b
  BY <1>1, <1>3, <1>4 DEF Named
<1>6. /\ P \in HeapType /\ P.flags = h.flags /\ Lists(P, Without(h.flags, C, Alone(a, b)))
      /\ NamedBut(P, C, Alone(a, b))
  <2> DEFINE old == Alone(a, b)
             gone == Alone(a, x)
  <2>1. DOMAIN old = {a} /\ DOMAIN gone = {a} /\ old[a] = b /\ gone[a] = x
    BY DEF Alone
  <2>2. PlaceOf(old, a) = x
    BY <1>1, <1>3, <2>1, PlaceIs DEF PlaceOf
  <2> HIDE DEF old, gone, P, S, x
  <2>3. AllFree(h.flags, C, old)
    BY <1>3, <2>1 DEF AllFree, FreeBlockOf
  <2>4. \A l \in DOMAIN gone : gone[l] = PlaceOf(old, l)
    BY <2>1, <2>2
  <2>5. DOMAIN old \subseteq Levels /\ DOMAIN gone = DOMAIN old
    BY <2>1
  <2>6. /\ PopEach(h, gone) \in HeapType /\ PopEach(h, gone).flags = h.flags
        /\ Lists(PopEach(h, gone), Without(h.flags, C, old)) /\ NamedBut(PopEach(h, gone), C, old)
    BY <2>3, <2>4, <2>5, PoppedOff
  <2>7. QED
    BY <2>6 DEF old, gone, P
<1>7. Divide(h, x, a, d) = Split(P, b, a, d)
  BY <1>5 DEF Divide, Alone
<1> HIDE DEF P, x, S
<1>8. LET R == Split(P, b, a, d)
      IN  /\ Listed(R.heap, C) /\ R.block = <<t, Over(j, d, i * Width(a))>>
          /\ Divided(R.heap.flags[t], P.flags[t], j, i * Width(a), a, d)
          /\ \A u \in Trees \ {t} : R.heap.flags[u] = P.flags[u]
  BY <1>1, <1>4, <1>6, SplitGood
<1>9. QED
  BY <1>4, <1>6, <1>7, <1>8 DEF x

\* How far up a block merges: as long as its twin is free.
LEMMA ClimbIs ==
  ASSUME NEW h, NEW t, NEW j \in Nat, NEW d \in Levels, NEW q \in InChunk
  PROVE  LET k == Climb(h, <<t, Over(j, d, q)>>, d)
         IN  /\ k \in 0 .. d
             /\ \A m \in d - k + 1 .. d : h.flags[t][N(j, m, Twin(Up(m, q)))].free
             /\ d - k > 0 => ~h.flags[t][N(j, d - k, Twin(Up(d - k, q)))].free
<1> DEFINE n == Over(j, d, q)
           Merges(x) == Free(h, t, Sibling(Ancestor(n, x)))
           Stops == {x \in 0 .. d : x < d => ~Merges(x)}
           k == Climb(h, <<t, n>>, d)
<1>1. d \in Nat
  BY Widths
<1>2. \A x \in 0 .. d - 1 : Merges(x) <=> h.flags[t][N(j, d - x, Twin(Up(d - x, q)))].free
  <2>1. d \in 0 .. d
    BY <1>1
  <2>2. \A x \in 0 .. d - 1 : Sibling(Ancestor(n, x)) = N(j, d - x, Twin(Up(d - x, q)))
    <3> DEFINE o == n
    <3>1. o = Over(j, d, q)
      OBVIOUS
    <3> HIDE DEF o
    <3>2. \A x \in 0 .. d - 1 : Sibling(Ancestor(o, x)) = N(j, d - x, Twin(Up(d - x, q)))
      BY <2>1, <3>1, WayUp
    <3>3. QED
      BY <3>2 DEF o
  <2>3. QED
    BY <2>2 DEF Free
<1> HIDE DEF Merges
<1>3. PICK s \in Stops : \A x \in Stops : s <= x
  <2>1. Stops \subseteq Nat /\ d \in Stops
    BY <1>1
  <2> HIDE DEF Stops
  <2>2. QED
    BY <2>1, Least
<1>4. s \in 0 .. d /\ (s < d => ~Merges(s)) /\ \A x \in 0 .. s - 1 : Merges(x)
  BY <1>1, <1>3
<1>5. k = CHOOSE x \in 0 .. d : (\A y \in 0 .. x - 1 : Merges(y)) /\ (x < d => ~Merges(x))
  BY DEF Climb, Merges
<1>6. k \in 0 .. d /\ (\A y \in 0 .. k - 1 : Merges(y)) /\ (k < d => ~Merges(k))
  BY <1>4, <1>5
<1> HIDE DEF k, n
<1>7. ASSUME NEW m \in d - k + 1 .. d
      PROVE  h.flags[t][N(j, m, Twin(Up(m, q)))].free
  <2> DEFINE x == d - m
  <2>1. x \in 0 .. k - 1 /\ x \in 0 .. d - 1 /\ d - x = m
    BY <1>1, <1>6
  <2> HIDE DEF x
  <2>2. Merges(x)
    BY <1>6, <2>1
  <2>3. h.flags[t][N(j, d - x, Twin(Up(d - x, q)))].free
    BY <1>2, <2>1, <2>2
  <2>4. QED
    BY <2>1, <2>3
<1>8. d - k > 0 => ~h.flags[t][N(j, d - k, Twin(Up(d - k, q)))].free
  BY <1>1, <1>2, <1>6
<1>9. QED
  BY <1>6, <1>7, <1>8 DEF k, n

\* A block given back leaves them sound: its free siblings leave their lists and the merged
\* block enters one.
LEMMA CoalesceGood ==
  ASSUME NEW h, NEW C, Listed(h, C), NEW t \in Trees, NEW j \in 0 .. C[t] - 1,
         NEW d \in Levels, NEW i \in At(d),
         ~h.flags[t][N(j, d, i)].free, ~h.flags[t][N(j, d, i)].inner
  PROVE  LET q == i * Width(d)
             R == Coalesce(h, Block(t, j, d, i))
         IN  /\ Listed(R, C)
             /\ \A u \in Trees \ {t} : R.flags[u] = h.flags[u]
             /\ \E a \in 0 .. d :
                  /\ Coalescing(R.flags[t], h.flags[t], j, q, a, d)
                  /\ \A m \in a + 1 .. d : h.flags[t][N(j, m, Twin(Up(m, q)))].free
<1> DEFINE q == i * Width(d)
           n == Over(j, d, q)
           F == h.flags[t]
           c == C[t]
           k == Climb(h, <<t, n>>, d)
           a == d - k
           gone == Gone(t, n, d, k)
           P == PopEach(h, gone)
           G == CoalesceFlags(F, n, d, k)
           g == [P EXCEPT !.flags[t] = G]
           old == [l \in a + 1 .. d |-> Block(t, j, l, Twin(Up(l, q)))]
           top == Block(t, j, a, Up(a, q))
           new == Alone(a, top)
           R == Coalesce(h, <<t, n>>)
<1>1. /\ h \in HeapType /\ Forest(h.flags, C) /\ Lists(h, FreeAt(h.flags, C)) /\ Named(h, C)
      /\ C \in [Trees -> ChunkCounts \cup {0}] /\ c \in 0 .. MaxChunks /\ j \in Nat
      /\ F \in [Nodes -> FlagType] /\ Tree(F, c) /\ q \in InChunk /\ Up(d, q) = i
      /\ d \in Nat /\ Depth \in Nat /\ d <= Depth
  BY Chunks, FirstPage, Widths, Constants DEF Listed, Forest, Tree
<1>2. n = N(j, d, i) /\ <<t, n>> = Block(t, j, d, i)
  BY <1>1 DEF Over, Block
<1>3. h.flags[t][n].depth = d
  BY <1>1, <1>2 DEF Tree, Depths
<1>4. R = PushEach(g, [l \in {a} |-> <<t, Ancestor(n, k)>>])
  <2>1. Climb(h, <<t, n>>, d) = k
    OBVIOUS
  <2> HIDE DEF k, n
  <2>2. QED
    BY <1>3, <2>1, CoalesceIs
<1>5. /\ k \in 0 .. d
      /\ \A m \in a + 1 .. d : F[N(j, m, Twin(Up(m, q)))].free
      /\ a > 0 => ~F[N(j, a, Twin(Up(a, q)))].free
  BY <1>1, ClimbIs
<1> HIDE DEF q, k
<1>6. a \in Levels /\ a \in Nat /\ a <= d /\ k \in Nat /\ a \in 0 .. d /\ d - k = a
  BY <1>1, <1>5 DEF Levels
<1>7. /\ \A x \in 0 .. k : Ancestor(n, x) = Over(j, d - x, q)
      /\ \A x \in 0 .. k - 1 : Sibling(Ancestor(n, x)) = N(j, d - x, Twin(Up(d - x, q)))
  BY <1>1, <1>5, WayUp
<1>8. [l \in {a} |-> <<t, Ancestor(n, k)>>] = new
  BY <1>6, <1>7 DEF Alone, Block, Over
<1>9. \A l \in a + 1 .. d : gone[l] = Address(Block(t, j, l, Twin(Up(l, q))), l)
  <2>1. SUFFICES ASSUME NEW l \in a + 1 .. d
                 PROVE  gone[l] = Address(Block(t, j, l, Twin(Up(l, q))), l)
    OBVIOUS
  <2>2. gone[l] = Address(<<t, Sibling(Ancestor(n, d - l))>>, l)
    BY DEF Gone
  <2>3. d - l \in 0 .. k - 1 /\ d - (d - l) = l
    BY <1>1, <1>5, <1>6
  <2> DEFINE x == d - l
  <2>4. Sibling(Ancestor(n, x)) = N(j, d - x, Twin(Up(d - x, q))) /\ d - x = l
    BY <1>7, <2>3
  <2>5. Sibling(Ancestor(n, d - l)) = N(j, l, Twin(Up(l, q)))
    BY <2>4
  <2>6. QED
    BY <2>2, <2>5 DEF Block
<1>10. Coalescing(G, F, j, q, a, d)
  BY <1>1, <1>5, CoalesceCoalesces
<1>11. DOMAIN gone = a + 1 .. d /\ DOMAIN old = a + 1 .. d
       /\ \A l \in a + 1 .. d : old[l] = Block(t, j, l, Twin(Up(l, q)))
  BY DEF Gone
<1>12. DOMAIN new = {a} /\ new[a] = top
  BY DEF Alone
<1>13. j \in 0 .. c - 1 /\ ~F[n].free /\ ~F[n].inner /\ n = Over(j, d, q)
  BY <1>2
<1> HIDE DEF n, F, c, a, gone, P, G, g, old, top, new, R
<1>14. /\ \A m \in a .. d : m \in Levels /\ Up(m, q) \in At(m)
       /\ \A m \in a + 1 .. d : m \in Levels \ {0} /\ Twin(Up(m, q)) \in At(m)
  BY <1>1, <1>6, <1>13, PathNodes
<1>15. /\ Tree(G, c)
       /\ ~F[Over(j, a, q)].free
       /\ \A m \in 0 .. c - 1, l \in Levels : \A e \in At(l) :
              G[N(m, l, e)].free <=>
                \/ m = j /\ l = a /\ e = Up(a, q)
                \/ F[N(m, l, e)].free /\ ~(m = j /\ l \in a + 1 .. d /\ e = Twin(Up(l, q)))
  BY <1>1, <1>5, <1>6, <1>10, <1>13, CoalescedTree
<1>16. AllFree(h.flags, C, old)
  <2>1. SUFFICES ASSUME NEW l \in a + 1 .. d
                 PROVE  FreeBlockOf(h.flags, C, old, l)
    BY <1>11 DEF AllFree
  <2>2. FreeNode(h.flags, C, t, j, l, Twin(Up(l, q)))
    BY <1>5, <1>13, <1>14 DEF FreeNode, c, F
  <2>3. QED
    BY <1>11, <2>2 DEF FreeBlockOf
<1>17. /\ P \in HeapType /\ P.flags = h.flags
       /\ Lists(P, Without(h.flags, C, old)) /\ NamedBut(P, C, old)
  BY <1>9, <1>11, <1>14, <1>16, PoppedOff DEF PlaceOf, P
<1>18. /\ g \in HeapType /\ SameLists(P, g) /\ g.flags[t] = G
       /\ \A u \in Trees \ {t} : g.flags[u] = h.flags[u]
  BY <1>10, <1>17, WithFlags DEF Coalescing, g
<1>19. Forest(g.flags, C)
  BY <1>1, <1>15, <1>18 DEF Forest, c, HeapType, FlagsType
<1>20. AllFree(g.flags, C, new)
  BY <1>1, <1>6, <1>12, <1>13, <1>15, <1>18, UpAt DEF FreeNode, AllFree, FreeBlockOf, top
<1>21. ASSUME NEW l \in Levels, NEW u, NEW m, NEW e
       PROVE  FreeNode(h.flags, C, u, m, l, e) /\ ~Among(old, l, Block(u, m, l, e))
                <=> FreeNode(g.flags, C, u, m, l, e) /\ ~Among(new, l, Block(u, m, l, e))
  <2>1. SUFFICES ASSUME u \in Trees, m \in 0 .. C[u] - 1, e \in At(l)
                 PROVE  h.flags[u][N(m, l, e)].free /\ ~Among(old, l, Block(u, m, l, e))
                          <=> g.flags[u][N(m, l, e)].free /\ ~Among(new, l, Block(u, m, l, e))
    BY DEF FreeNode
  <2>2. m \in Nat
    BY <1>1, <2>1, Chunks
  <2>3. Among(new, l, Block(u, m, l, e)) <=> u = t /\ m = j /\ l = a /\ e = Up(a, q)
    <3>1. Among(new, l, Block(u, m, l, e)) => u = t /\ m = j /\ l = a /\ e = Up(a, q)
      <4>1. SUFFICES ASSUME Among(new, l, Block(u, m, l, e))
                     PROVE  u = t /\ m = j /\ l = a /\ e = Up(a, q)
        OBVIOUS
      <4>2. Block(u, m, l, e) = Block(t, j, a, Up(a, q))
        BY <1>12, <4>1 DEF Among, top
      <4>3. Up(a, q) \in At(a)
        BY <1>1, <1>6, UpAt
      <4>4. QED
        BY <1>1, <1>6, <2>1, <2>2, <4>2, <4>3, BlockOne
    <3>2. QED
      BY <1>12, <3>1 DEF Among, top
  <2>4. Among(old, l, Block(u, m, l, e)) <=> u = t /\ m = j /\ l \in a + 1 .. d /\ e = Twin(Up(l, q))
    <3>1. Among(old, l, Block(u, m, l, e)) => u = t /\ m = j /\ l \in a + 1 .. d /\ e = Twin(Up(l, q))
      <4>1. SUFFICES ASSUME Among(old, l, Block(u, m, l, e))
                     PROVE  u = t /\ m = j /\ l \in a + 1 .. d /\ e = Twin(Up(l, q))
        OBVIOUS
      <4>2. Block(u, m, l, e) = Block(t, j, l, Twin(Up(l, q))) /\ l \in a + 1 .. d
        BY <1>11, <4>1 DEF Among
      <4>3. QED
        BY <1>1, <1>14, <2>1, <2>2, <4>2, BlockOne
    <3>2. QED
      BY <1>11, <3>1 DEF Among
  <2>5. CASE u # t
    BY <1>18, <2>1, <2>3, <2>4, <2>5
  <2>6. CASE u = t
    BY <1>15, <1>18, <2>1, <2>3, <2>4, <2>6 DEF c, F, Over
  <2>7. QED
    BY <2>5, <2>6
<1>22. Lists(g, Without(g.flags, C, new))
  <2>1. Without(h.flags, C, old) = Without(g.flags, C, new)
    BY <1>1, <1>16, <1>20, <1>21, Moved
  <2>2. QED
    BY <1>17, <1>18, <2>1, ListsOf
<1>23. NamedBut(g, C, new)
  <2>1. SUFFICES ASSUME NEW u \in Trees, NEW l \in Levels, NEW m \in 0 .. C[u] - 1, NEW e \in At(l),
                        g.flags[u][N(m, l, e)].free, ~Among(new, l, Block(u, m, l, e))
                 PROVE  g.hdr[Spot(u, m, l, e)].blockID = Block(u, m, l, e)
    BY DEF NamedBut, Among
  <2>2. h.flags[u][N(m, l, e)].free /\ ~Among(old, l, Block(u, m, l, e))
    BY <1>21, <2>1 DEF FreeNode
  <2>3. QED
    BY <1>17, <1>18, <2>2 DEF NamedBut, Among, SameLists
<1>24. Listed(R, C) /\ R.flags = g.flags
  <2>1. DOMAIN new \subseteq Levels
    BY <1>6, <1>12
  <2>2. R = PushEach(g, new)
    BY <1>4, <1>8
  <2>3. QED
    BY <1>18, <1>19, <1>20, <1>22, <1>23, <2>1, <2>2, Relisted
<1>25. R = Coalesce(h, Block(t, j, d, i))
  BY <1>2 DEF R
<1>26. QED
  BY <1>5, <1>6, <1>10, <1>18, <1>24, <1>25 DEF F, q

(***************************************************************************)
(* A new tree: its chunks are free blocks of level 0, but for the first    *)
(* one, which is divided at once down to the page of flags.                *)
(***************************************************************************)
\* The flags of a new tree of c chunks, as AddTree writes them.
Fresh(c) == [n \in Nodes |-> IF n < c * Slots /\ Local(n) # Slots - 1 THEN Undeveloped(n) ELSE ZeroFlag]
\* The root of chunk j, at the chunk's first page.
Root(t, j) == <<t, j * 2 ^ Depth>>
\* The headers of a new tree of c chunks: its roots but the first, in order, before the former
\* head of the list.
RootHdr(h, t, c) ==
  [a \in Addresses |->
     IF \E j \in 1 .. c - 1 : a = Root(t, j)
     THEN LET j == CHOOSE j \in 1 .. c - 1 : a = Root(t, j)
          IN  [prev |-> IF j = 1 THEN NULL ELSE Root(t, j - 1),
               next |-> IF j = c - 1 THEN h.head[0] ELSE Root(t, j + 1),
               blockID |-> <<t, j * Slots>>]
     ELSE IF a = h.head[0] THEN [h.hdr[a] EXCEPT !.prev = Root(t, c - 1)]
     ELSE h.hdr[a]]
\* The heap once those roots are listed and before the first chunk is split for the flags.
Planted(h, t, c) == [flags |-> [h.flags EXCEPT ![t] = Fresh(c)],
                     head  |-> [h.head EXCEPT ![0] = Root(t, 1)],
                     hdr   |-> RootHdr(h, t, c)]

\* A tree is added by planting its roots and splitting the first chunk down to its first page.
LEMMA AddTreeIs ==
  ASSUME NEW h, NEW t, NEW c
  PROVE  AddTree(h, t, c) = Split(Planted(h, t, c), <<t, 0>>, 0, Depth).heap
BY DEF AddTree, Planted, Fresh, Root, RootHdr

\* The coordinates of the first root and of the page of flags.
LEMMA Zeroth ==
  /\ 0 \in Levels /\ Depth \in Levels /\ 0 \in InChunk /\ 0 * Width(0) = 0
  /\ At(0) = {0} /\ 0 \in At(Depth)
  /\ \A j \in Nat : N(j, 0, 0) = j * Slots
  /\ \A t : \A j \in Nat : Spot(t, j, 0, 0) = Root(t, j)
  /\ Block(0, 0, 0, 0) = <<0, 0>> /\ \A t : Block(t, 0, 0, 0) = <<t, 0>>
  /\ \A l \in Levels : Up(l, 0) = 0
  /\ FlagsNode = N(0, Depth, 0)
<1>1. 0 \in Levels /\ Depth \in Levels /\ Depth \in Nat
  BY Constants DEF Levels
<1>2. 2 ^ 0 = 1 /\ At(0) = {0}
  BY DEF At
<1>3. 0 * Width(0) = 0
  BY <1>1, Widths
<1>4. 0 \in InChunk /\ 0 \in At(Depth)
  BY SlotsAre DEF InChunk, At
<1>5. \A j \in Nat : N(j, 0, 0) = j * Slots
  BY <1>2, SlotsAre DEF N
<1>6. ASSUME NEW t, NEW j \in Nat
      PROVE  Spot(t, j, 0, 0) = Root(t, j)
  BY <1>3, SlotsAre DEF Spot, Root
<1>7. N(0, 0, 0) = 0
  BY <1>5, SlotsAre
<1>8. \A t : Block(t, 0, 0, 0) = <<t, 0>>
  BY <1>7 DEF Block
<1>9. \A l \in Levels : Up(l, 0) = 0
  <2>1. SUFFICES ASSUME NEW l \in Levels
                 PROVE  Up(l, 0) = 0
    OBVIOUS
  <2> DEFINE w == Width(l)
  <2>2. w \in Nat \ {0}
    BY Widths
  <2> HIDE DEF w
  <2>3. 0 \div w = 0
    BY <2>2
  <2>4. QED
    BY <2>3 DEF Up, w
<1>10. FlagsNode = N(0, Depth, 0)
  BY SlotsAre DEF FlagsNode, N
<1>11. QED
  BY <1>1, <1>2, <1>3, <1>4, <1>5, <1>6, <1>8, <1>9, <1>10

\* The flags of a new tree: its roots are free and nothing else is.
LEMMA FreshTree ==
  ASSUME NEW c \in 0 .. MaxChunks
  PROVE  /\ Tree(Fresh(c), c)
         /\ \A j \in 0 .. c - 1, l \in Levels : \A i \in At(l) : Fresh(c)[N(j, l, i)].free <=> l = 0
<1> DEFINE F == Fresh(c)
<1>1. ASSUME NEW j \in 0 .. c - 1, NEW l \in Levels, NEW i \in At(l)
      PROVE  F[N(j, l, i)] = Flag(l, l = 0, l > 0)
  <2> DEFINE n == N(j, l, i)
  <2>1. n \in Nodes /\ j \in Nat
    BY InNodes
  <2>2. n < c * Slots
    BY <2>1, Constants, InTree
  <2>3. Local(n) # Slots - 1
    BY <2>1, NumberIs, SlotsAre
  <2>4. Level(n) = l
    BY <2>1, LevelIs
  <2> HIDE DEF n
  <2>5. F[n] = Undeveloped(n)
    BY <2>1, <2>2, <2>3 DEF Fresh
  <2>6. QED
    BY <2>4, <2>5 DEF Undeveloped, n
<1>2. \A n \in Nodes : n < c * Slots /\ Local(n) # Slots - 1 => Level(n) \in Levels
  <2>1. SUFFICES ASSUME NEW n \in Nodes, Local(n) # Slots - 1
                 PROVE  Level(n) \in Levels
    OBVIOUS
  <2>2. n \in Nat
    BY DEF Nodes
  <2>3. PICK j \in Nat, l \in Levels : \E i \in At(l) : n = N(j, l, i)
    BY <2>1, <2>2, NumberOf
  <2>4. PICK i \in At(l) : n = N(j, l, i)
    BY <2>3
  <2>5. QED
    BY <2>4, LevelIs
<1>3. F \in [Nodes -> FlagType]
  <2>1. SUFFICES ASSUME NEW n \in Nodes
                 PROVE  (IF n < c * Slots /\ Local(n) # Slots - 1 THEN Undeveloped(n) ELSE ZeroFlag)
                          \in FlagType
    BY DEF Fresh
  <2>2. CASE n < c * Slots /\ Local(n) # Slots - 1
    <3> DEFINE l == Level(n)
    <3>1. l \in Levels
      BY <1>2, <2>2
    <3>2. Undeveloped(n) = Flag(l, l = 0, l > 0)
      BY DEF Undeveloped
    <3> HIDE DEF l
    <3>3. Undeveloped(n) \in FlagType
      BY <3>1, <3>2 DEF Flag, FlagType
    <3>4. QED
      BY <2>2, <3>3
  <2>3. ZeroFlag \in FlagType
    BY Zeroth DEF ZeroFlag, InUseFlag, Flag, FlagType
  <2>4. QED
    BY <2>2, <2>3
<1> HIDE DEF F
<1>4. ASSUME NEW j \in 0 .. c - 1, NEW l \in Levels, NEW i \in At(l)
      PROVE  /\ F[N(j, l, i)].depth = l /\ (F[N(j, l, i)].free <=> l = 0)
             /\ F[N(j, l, i)].inner <=> l > 0
  <2>1. l \in Nat
    BY Widths
  <2>2. CASE l = 0
    <3>1. (l = 0) = TRUE /\ (l > 0) = FALSE
      BY <2>2
    <3>2. F[N(j, l, i)] = Flag(l, TRUE, FALSE)
      BY <1>1, <3>1
    <3>3. QED
      BY <2>2, <3>1, <3>2 DEF Flag
  <2>3. CASE l # 0
    <3>1. (l = 0) = FALSE /\ (l > 0) = TRUE
      BY <2>1, <2>3
    <3>2. F[N(j, l, i)] = Flag(l, FALSE, TRUE)
      BY <1>1, <3>1
    <3>3. QED
      BY <2>3, <3>1, <3>2 DEF Flag
  <2>4. QED
    BY <2>2, <2>3
<1>5. Covered(F, c)
  <2>1. SUFFICES ASSUME NEW j \in 0 .. c - 1, NEW q \in InChunk
                 PROVE  \E l \in Levels : \A m \in Levels : Leaf(F, Over(j, m, q)) <=> m = l
    BY DEF Covered
  <2>2. ASSUME NEW m \in Levels
        PROVE  Leaf(F, Over(j, m, q)) <=> m = 0
    BY <1>4, UpAt, Widths DEF Leaf, Over
  <2>3. QED
    BY <2>2, Zeroth
<1>6. Depths(F, c)
  BY <1>4 DEF Depths
<1>7. Merged(F, c)
  BY <1>4 DEF Merged
<1>8. QED
  BY <1>3, <1>4, <1>5, <1>6, <1>7 DEF Tree, F

\* The list of the roots 1 to c - 1.
LEMMA RootList ==
  ASSUME NEW h \in HeapType, h.head[0] = NULL, NEW t \in Trees, NEW c \in ChunkCounts
  PROVE  /\ RootHdr(h, t, c) \in [Addresses -> HeaderType]
         /\ Linked(RootHdr(h, t, c), Root(t, 1), {Root(t, j) : j \in 1 .. c - 1})
         /\ \A j \in 1 .. c - 1 : /\ Root(t, j) \in Addresses
                                  /\ RootHdr(h, t, c)[Root(t, j)].blockID = <<t, j * Slots>>
         /\ \A a \in Addresses : (\A j \in 1 .. c - 1 : a # Root(t, j)) =>
              RootHdr(h, t, c)[a] = h.hdr[a]
<1> DEFINE K == RootHdr(h, t, c)
           S == {Root(t, j) : j \in 1 .. c - 1}
           Pred(j) == IF j = 1 THEN NULL ELSE Root(t, j - 1)
           Succ(j) == IF j = c - 1 THEN NULL ELSE Root(t, j + 1)
<1>1. c \in Nat /\ c >= 2 /\ c \in 0 .. MaxChunks /\ MaxChunks \in Nat
  BY Constants
<1>2. ASSUME NEW j \in 0 .. c - 1
      PROVE  Root(t, j) \in Addresses /\ j \in Nat /\ <<t, j * Slots>> \in Trees \X Nodes
  BY <1>1, Zeroth, SpotIn
<1>0. /\ \A j \in 1 .. c - 1 : j \in 0 .. c - 1
      /\ \A j \in 1 .. c - 1 : j # 1 => j - 1 \in 0 .. c - 1
      /\ \A j \in 1 .. c - 1 : j # c - 1 => j + 1 \in 0 .. c - 1
  BY <1>1
<1>3. ASSUME NEW j \in 0 .. c - 1, NEW k \in 0 .. c - 1, Root(t, j) = Root(t, k)
      PROVE  j = k
  BY <1>2, <1>3, Zeroth, SpotOne
<1>4. ASSUME NEW j \in 1 .. c - 1
      PROVE  /\ K[Root(t, j)].prev = Pred(j) /\ K[Root(t, j)].next = Succ(j)
             /\ K[Root(t, j)].blockID = <<t, j * Slots>> /\ K[Root(t, j)] \in HeaderType
  <2> DEFINE a == Root(t, j)
             J == CHOOSE k \in 1 .. c - 1 : a = Root(t, k)
  <2>1. a \in Addresses
    BY <1>0, <1>2
  <2>2. J = j
    BY <1>0, <1>3 DEF a
  <2>3. \E k \in 1 .. c - 1 : a = Root(t, k)
    OBVIOUS
  <2>4. K[a] = [prev |-> IF J = 1 THEN NULL ELSE Root(t, J - 1),
                next |-> IF J = c - 1 THEN h.head[0] ELSE Root(t, J + 1),
                blockID |-> <<t, J * Slots>>]
    BY <2>1, <2>3 DEF RootHdr
  <2> HIDE DEF J, K, a
  <2>5. K[a] = [prev |-> Pred(j), next |-> Succ(j), blockID |-> <<t, j * Slots>>]
    BY <2>2, <2>4
  <2>6. Pred(j) \in Addresses \cup {NULL} /\ Succ(j) \in Addresses \cup {NULL}
        /\ <<t, j * Slots>> \in Trees \X Nodes
    BY <1>0, <1>2
  <2> HIDE DEF Pred, Succ
  <2>7. /\ K[a].prev = Pred(j) /\ K[a].next = Succ(j) /\ K[a].blockID = <<t, j * Slots>>
        /\ K[a] \in HeaderType
    BY <2>5, <2>6 DEF HeaderType
  <2>8. QED
    BY <2>7 DEF a
<1>5. ASSUME NEW a \in Addresses, \A j \in 1 .. c - 1 : a # Root(t, j)
      PROVE  K[a] = h.hdr[a]
  BY <1>5, NoAddress DEF RootHdr
<1>6. K \in [Addresses -> HeaderType]
  BY <1>4, <1>5, TakenFields DEF RootHdr
<1> HIDE DEF K
<1>7. \A j \in 1 .. c - 1 : Root(t, j) \in S /\ Root(t, j) # NULL
  BY <1>0, <1>2, NoAddress
<1>8. Root(t, 1) \in S /\ K[Root(t, 1)].prev = NULL
  BY <1>1, <1>4
<1>9. ASSUME NEW x \in S
      PROVE  /\ K[x].next # NULL => K[x].next \in S /\ K[K[x].next].prev = x
             /\ K[x].prev # NULL => K[x].prev \in S /\ K[K[x].prev].next = x
             /\ K[x].prev = NULL => Root(t, 1) = x
  <2>1. PICK j \in 1 .. c - 1 : x = Root(t, j)
    OBVIOUS
  <2>2. K[x].next # NULL => K[x].next \in S /\ K[K[x].next].prev = x
    <3>1. SUFFICES ASSUME K[x].next # NULL
                   PROVE  K[x].next \in S /\ K[K[x].next].prev = x
      OBVIOUS
    <3> DEFINE m == j + 1
    <3>2. j # c - 1 /\ K[x].next = Root(t, m)
      BY <1>4, <2>1, <3>1
    <3>3. m \in 1 .. c - 1 /\ m # 1 /\ m - 1 = j
      BY <1>1, <3>2
    <3> HIDE DEF m
    <3>4. K[Root(t, m)].prev = Root(t, j)
      BY <1>4, <3>3
    <3>5. QED
      BY <1>7, <2>1, <3>2, <3>3, <3>4
  <2>3. K[x].prev # NULL => K[x].prev \in S /\ K[K[x].prev].next = x
    <3>1. SUFFICES ASSUME K[x].prev # NULL
                   PROVE  K[x].prev \in S /\ K[K[x].prev].next = x
      OBVIOUS
    <3> DEFINE m == j - 1
    <3>2. j # 1 /\ K[x].prev = Root(t, m)
      BY <1>4, <2>1, <3>1
    <3>3. m \in 1 .. c - 1 /\ m # c - 1 /\ m + 1 = j
      BY <1>1, <3>2
    <3> HIDE DEF m
    <3>4. K[Root(t, m)].next = Root(t, j)
      BY <1>4, <3>3
    <3>5. QED
      BY <1>7, <2>1, <3>2, <3>3, <3>4
  <2>4. K[x].prev = NULL => Root(t, 1) = x
    BY <1>1, <1>4, <1>7, <2>1
  <2>5. QED
    BY <2>2, <2>3, <2>4
<1>10. ASSUME NEW R \in SUBSET S, R # {}
       PROVE  \E x \in R : K[x].prev \notin R
  <2> DEFINE Js == {j \in 1 .. c - 1 : Root(t, j) \in R}
  <2>1. Js \subseteq Nat /\ Js # {}
    BY <1>1, <1>10
  <2>2. PICK j \in Js : \A k \in Js : j <= k
    BY <2>1, Least
  <2>3. j \in 1 .. c - 1 /\ Root(t, j) \in R
    BY <2>2
  <2>4. K[Root(t, j)].prev \notin R
    <3>1. CASE j = 1
      BY <1>4, <1>7, <1>10, <2>3, <3>1
    <3>2. CASE j # 1
      <4> DEFINE m == j - 1
      <4>1. m \in 1 .. c - 1 /\ ~(j <= m)
        BY <1>1, <2>3, <3>2
      <4>2. K[Root(t, j)].prev = Root(t, m)
        BY <1>4, <2>3, <3>2
      <4> HIDE DEF m
      <4>3. m \notin Js
        BY <2>2, <4>1
      <4>4. QED
        BY <4>1, <4>2, <4>3
    <3>3. QED
      BY <3>1, <3>2
  <2>5. QED
    BY <2>3, <2>4
<1>11. Linked(K, Root(t, 1), S)
  BY <1>8, <1>9, <1>10 DEF Linked
<1>12. \A j \in 1 .. c - 1 : Root(t, j) \in Addresses
  BY <1>0, <1>2
<1>13. QED
  BY <1>4, <1>5, <1>6, <1>11, <1>12 DEF K

\* The roots of a new tree, linked when no root is free: the lists are sound but for
\* root 0, which is marked free and in no list.
LEMMA PlantedGood ==
  ASSUME NEW h, NEW C, Listed(h, C), h.head[0] = NULL, NEW t \in Trees, C[t] = 0,
         NEW c \in ChunkCounts
  PROVE  LET g == Planted(h, t, c)
             D == [C EXCEPT ![t] = c]
             old == Alone(0, Block(t, 0, 0, 0))
         IN  /\ g \in HeapType /\ Forest(g.flags, D) /\ D[t] = c /\ 0 \in 0 .. D[t] - 1
             /\ g.flags[t] = Fresh(c) /\ \A u \in Trees \ {t} : g.flags[u] = h.flags[u]
             /\ g.flags[t][N(0, 0, 0)].free
             /\ Lists(g, Without(g.flags, D, old)) /\ NamedBut(g, D, old)
<1> DEFINE D == [C EXCEPT ![t] = c]
           g == Planted(h, t, c)
           b == Block(t, 0, 0, 0)
           old == Alone(0, b)
           S == Without(g.flags, D, old)
           K == RootHdr(h, t, c)
           A == FreeAt(h.flags, C)
           Roots == {Root(t, j) : j \in 1 .. c - 1}
<1>1. /\ h \in HeapType /\ Forest(h.flags, C) /\ Lists(h, A) /\ Named(h, C)
      /\ C \in [Trees -> ChunkCounts \cup {0}] /\ A \in [Levels -> SUBSET Addresses]
      /\ h.flags \in [Trees -> [Nodes -> FlagType]] /\ h.head \in [Levels -> Addresses \cup {NULL}]
  BY DEF Listed, Forest, HeapType, FreeAt
<1>2. /\ D \in [Trees -> ChunkCounts \cup {0}] /\ D[t] = c /\ \A u \in Trees \ {t} : D[u] = C[u]
      /\ c \in 0 .. MaxChunks /\ c \in Nat /\ c >= 2 /\ 0 \in 0 .. c - 1
  BY <1>1, Constants
<1>3. /\ Tree(Fresh(c), c) /\ Fresh(c) \in [Nodes -> FlagType]
      /\ \A j \in 0 .. c - 1, l \in Levels : \A i \in At(l) : Fresh(c)[N(j, l, i)].free <=> l = 0
  BY <1>2, FreshTree DEF Tree
<1>4. /\ K \in [Addresses -> HeaderType] /\ Linked(K, Root(t, 1), Roots)
      /\ \A j \in 1 .. c - 1 : Root(t, j) \in Addresses /\ K[Root(t, j)].blockID = <<t, j * Slots>>
      /\ \A x \in Addresses : (\A j \in 1 .. c - 1 : x # Root(t, j)) => K[x] = h.hdr[x]
  BY <1>1, RootList
<1>5. /\ g \in HeapType /\ g.hdr = K /\ g.head[0] = Root(t, 1)
      /\ \A l \in Levels \ {0} : g.head[l] = h.head[l]
      /\ g.flags \in FlagsType /\ g.flags[t] = Fresh(c) /\ \A u \in Trees \ {t} : g.flags[u] = h.flags[u]
  <2> DEFINE fl == [h.flags EXCEPT ![t] = Fresh(c)]
             hd == [h.head EXCEPT ![0] = Root(t, 1)]
  <2>1. /\ fl \in [Trees -> [Nodes -> FlagType]] /\ fl[t] = Fresh(c)
        /\ \A u \in Trees \ {t} : fl[u] = h.flags[u]
    BY <1>1, <1>3
  <2>2. 1 \in 1 .. c - 1 /\ Root(t, 1) \in Addresses
    BY <1>2, <1>4
  <2>3. /\ hd \in [Levels -> Addresses \cup {NULL}] /\ hd[0] = Root(t, 1)
        /\ \A l \in Levels \ {0} : hd[l] = h.head[l]
    BY <1>1, <2>2, Zeroth
  <2>4. g = [flags |-> fl, head |-> hd, hdr |-> K]
    BY DEF Planted
  <2> HIDE DEF fl, hd, K, g
  <2>5. g \in HeapType /\ g.flags = fl /\ g.head = hd /\ g.hdr = K
    BY <1>4, <2>1, <2>3, <2>4 DEF HeapType
  <2>6. QED
    BY <2>1, <2>3, <2>5 DEF FlagsType
<1>6. DOMAIN old = {0} /\ old[0] = b
  BY DEF Alone
<1> HIDE DEF D, g, old, S, K, A, b
<1>7. Forest(g.flags, D)
  BY <1>1, <1>2, <1>3, <1>5 DEF Forest
<1>8. FreeNode(g.flags, D, t, 0, 0, 0)
  BY <1>2, <1>3, <1>5, Zeroth DEF FreeNode
<1>9. AllFree(g.flags, D, old)
  BY <1>6, <1>8 DEF AllFree, FreeBlockOf, b
<1>10. A[0] = {}
  BY <1>1, Zeroth, EmptyList DEF Lists
<1>11. ASSUME NEW l \in Levels, NEW u, NEW j, NEW i
       PROVE  FreeNode(g.flags, D, u, j, l, i) <=>
                \/ u = t /\ l = 0 /\ j \in 0 .. c - 1 /\ i = 0
                \/ u # t /\ l # 0 /\ FreeNode(h.flags, C, u, j, l, i)
  <2>1. CASE u = t
    BY <1>2, <1>3, <1>5, <2>1, Zeroth DEF FreeNode
  <2>2. CASE u # t
    <3>1. FreeNode(g.flags, D, u, j, l, i) <=> FreeNode(h.flags, C, u, j, l, i)
      BY <1>2, <1>5, <2>2 DEF FreeNode
    <3>2. FreeNode(h.flags, C, u, j, l, i) => Spot(u, j, l, i) \in A[l]
      BY <1>1, FreeAtIs DEF A
    <3>3. QED
      BY <1>10, <2>2, <3>1, <3>2
  <2>3. QED
    BY <2>1, <2>2
<1>12. ASSUME NEW u, NEW j, NEW l, NEW i, FreeNode(h.flags, C, u, j, l, i)
       PROVE  u # t
  BY <1>12 DEF FreeNode
<1>13. S[0] = Roots
  <2>1. ASSUME NEW x
        PROVE  x \in S[0] <=> \E j \in 1 .. c - 1 : x = Root(t, j)
    <3>1. x \in S[0] <=> \E u, j, i : /\ FreeNode(g.flags, D, u, j, 0, i) /\ x = Spot(u, j, 0, i)
                                      /\ ~Among(old, 0, Block(u, j, 0, i))
      <4> DEFINE z == 0
      <4>1. z \in Levels
        BY Zeroth
      <4> HIDE DEF z
      <4>2. x \in S[z] <=> \E u, j, i : /\ FreeNode(g.flags, D, u, j, z, i) /\ x = Spot(u, j, z, i)
                                        /\ ~Among(old, z, Block(u, j, z, i))
        BY <1>2, <1>9, <4>1, WithoutIs DEF S
      <4>3. QED
        BY <4>2 DEF z
    <3>2. ASSUME NEW j \in 0 .. c - 1
          PROVE  (Among(old, 0, Block(t, j, 0, 0)) <=> j = 0) /\ Spot(t, j, 0, 0) = Root(t, j)
      BY <1>2, <1>6, Zeroth, BlockOne DEF Among, b
    <3>3. x \in S[0] <=> \E j \in 0 .. c - 1 : x = Spot(t, j, 0, 0) /\ ~Among(old, 0, Block(t, j, 0, 0))
      BY <1>11, <3>1, Zeroth
    <3>4. \A j : j \in 1 .. c - 1 <=> j \in 0 .. c - 1 /\ j # 0
      BY <1>2
    <3>5. QED
      BY <3>2, <3>3, <3>4
  <2>2. QED
    BY <2>1
<1>14. ASSUME NEW l \in Levels \ {0}
       PROVE  S[l] = A[l]
  <2>1. ASSUME NEW x
        PROVE  x \in S[l] <=> x \in A[l]
    <3>1. x \in S[l] <=> \E u, j, i : /\ FreeNode(g.flags, D, u, j, l, i) /\ x = Spot(u, j, l, i)
                                      /\ ~Among(old, l, Block(u, j, l, i))
      BY <1>2, <1>9, WithoutIs DEF S
    <3>2. \A y : ~Among(old, l, y)
      BY <1>6 DEF Among
    <3>3. x \in A[l] <=> \E u, j, i : FreeNode(h.flags, C, u, j, l, i) /\ x = Spot(u, j, l, i)
      BY <1>1, FreeAtIs DEF A
    <3>4. \A u, j, i : FreeNode(g.flags, D, u, j, l, i) <=> FreeNode(h.flags, C, u, j, l, i)
      BY <1>11, <1>12
    <3>5. QED
      BY <3>1, <3>2, <3>3, <3>4
  <2>2. QED
    BY <2>1
<1>15. ASSUME NEW u, NEW k, NEW l \in Levels, NEW i, FreeNode(h.flags, C, u, k, l, i)
       PROVE  /\ K[Spot(u, k, l, i)] = h.hdr[Spot(u, k, l, i)]
              /\ \A j \in 1 .. c - 1 : Spot(u, k, l, i) # Root(t, j)
  BY <1>1, <1>4, <1>12, <1>15, PlaceIs DEF Spot, Root
<1>16. Lists(g, S)
  <2>1. S \in [Levels -> SUBSET Addresses]
    BY DEF S, Without, FreeAt
  <2>2. ASSUME NEW l \in Levels
        PROVE  Linked(g.hdr, g.head[l], S[l])
    <3>1. CASE l = 0
      BY <1>4, <1>5, <1>13, <3>1
    <3>2. CASE l # 0
      BY <1>1, <1>5, <1>14, <1>15, <3>2, FreeAtIs, SameList DEF Lists, A
    <3>3. QED
      BY <3>1, <3>2
  <2>3. ASSUME NEW l \in Levels, NEW m \in Levels, l # m
        PROVE  S[l] \cap S[m] = {}
    BY <1>1, <1>13, <1>14, <1>15, <2>3, FreeAtIs DEF Lists, A
  <2>4. QED
    BY <2>1, <2>2, <2>3 DEF Lists
<1>17. NamedBut(g, D, old)
  <2>1. SUFFICES ASSUME NEW u \in Trees, NEW l \in Levels, NEW k \in 0 .. D[u] - 1, NEW i \in At(l),
                        g.flags[u][N(k, l, i)].free, ~Among(old, l, Block(u, k, l, i))
                 PROVE  g.hdr[Spot(u, k, l, i)].blockID = Block(u, k, l, i)
    BY DEF NamedBut, Among
  <2>2. FreeNode(g.flags, D, u, k, l, i)
    BY <2>1 DEF FreeNode
  <2>3. CASE u = t /\ l = 0 /\ k \in 0 .. c - 1 /\ i = 0
    BY <1>2, <1>4, <1>5, <1>6, <2>1, <2>3, Zeroth DEF Among, b, Block
  <2>4. CASE u # t /\ l # 0 /\ FreeNode(h.flags, C, u, k, l, i)
    BY <1>1, <1>5, <1>15, <2>4 DEF Named, FreeNode
  <2>5. QED
    BY <1>11, <2>2, <2>3, <2>4
<1>18. g.flags[t][N(0, 0, 0)].free
  BY <1>8 DEF FreeNode
<1>19. QED
  BY <1>2, <1>5, <1>7, <1>16, <1>17, <1>18 DEF g, D, S, old, b

\* A tree added when no root is free leaves the trees and the lists sound.
LEMMA AddTreeGood ==
  ASSUME NEW h, NEW C, Listed(h, C), h.head[0] = NULL, NEW t \in Trees, C[t] = 0,
         NEW c \in ChunkCounts
  PROVE  LET R == AddTree(h, t, c)
         IN  /\ Listed(R, [C EXCEPT ![t] = c])
             /\ Divided(R.flags[t], Fresh(c), 0, 0, 0, Depth)
             /\ \A u \in Trees \ {t} : R.flags[u] = h.flags[u]
<1> DEFINE D == [C EXCEPT ![t] = c]
           g == Planted(h, t, c)
           z == 0
<1>1. /\ g \in HeapType /\ Forest(g.flags, D) /\ z \in 0 .. D[t] - 1
      /\ g.flags[t] = Fresh(c) /\ \A u \in Trees \ {t} : g.flags[u] = h.flags[u]
      /\ g.flags[t][N(z, z, z)].free
      /\ Lists(g, Without(g.flags, D, Alone(z, Block(t, z, z, z))))
      /\ NamedBut(g, D, Alone(z, Block(t, z, z, z)))
  BY PlantedGood
<1>2. /\ z \in Levels /\ z \in At(z) /\ Depth \in Levels /\ z <= Depth /\ z * Width(z) = z
      /\ Block(t, z, z, z) = <<t, z>>
  BY Zeroth, Constants
<1>3. AddTree(h, t, c) = Split(g, <<t, z>>, z, Depth).heap
  BY AddTreeIs
<1> HIDE DEF D, g, z
<1>4. LET R == Split(g, Block(t, z, z, z), z, Depth)
      IN  /\ Listed(R.heap, D)
          /\ Divided(R.heap.flags[t], g.flags[t], z, z * Width(z), z, Depth)
          /\ \A u \in Trees \ {t} : R.heap.flags[u] = g.flags[u]
  BY <1>1, <1>2, SplitGood
<1>5. QED
  BY <1>1, <1>2, <1>3, <1>4 DEF D, z

(***************************************************************************)
(* Requests.                                                               *)
(***************************************************************************)
\* A size is understood when it is a power of two up to 2^Depth, and asks then for a
\* block at the level whose width it is.
LEMMA Exceeds ==
  ASSUME NEW k \in Nat
  PROVE  k < 2 ^ k
<1> DEFINE Bad == {m \in Nat : ~(m < 2 ^ m)}
<1>1. SUFFICES ASSUME Bad # {}
               PROVE  FALSE
  OBVIOUS
<1>2. PICK p \in Bad : \A m \in Bad : p <= m
  BY <1>1, Least
<1>3. p \in Nat /\ ~(p < 2 ^ p)
  BY <1>2
<1>7. p # 0
  <2>1. 2 ^ 0 = 1
    OBVIOUS
  <2> DEFINE z == 0
  <2>2. z < 2 ^ z
    BY <2>1
  <2> HIDE DEF z
  <2>3. p # z
    BY <1>3, <2>2
  <2>4. QED
    BY <2>3 DEF z
<1> DEFINE m == p - 1
<1>4. m \in Nat /\ m + 1 = p /\ m < 2 ^ m
  BY <1>2, <1>3, <1>7
<1> HIDE DEF m
<1>5. 2 ^ (m + 1) = 2 * 2 ^ m /\ 2 ^ m \in Nat
  BY <1>4, TwoToThe
<1>6. QED
  BY <1>3, <1>4, <1>5

\* The lowest bit of 2 ^ k is bit k.
LEMMA Powers ==
  ASSUME NEW k \in Nat
  PROVE  2 ^ k > 0 /\ LowestBit(2 ^ k) = k
<1> DEFINE s == 2 ^ k
           Is(m) == s % 2 ^ m = 0 /\ s % 2 ^ (m + 1) # 0
<1>1. s \in Nat \ {0} /\ 2 ^ (k + 1) = 2 * s /\ k \in 0 .. s
  BY TwoToThe, Exceeds
<1>2. Is(k)
  <2> HIDE DEF s
  <2>1. s = s * 1 + 0 /\ s = (2 * s) * 0 + s
    BY <1>1
  <2> DEFINE z == 0
             o == 1
             w == 2 * s
  <2>2. /\ s = s * o + z /\ z \in 0 .. s - 1 /\ o \in Int /\ s = w * z + s /\ s \in 0 .. w - 1
        /\ w \in Nat \ {0} /\ z \in Int
    BY <1>1
  <2> HIDE DEF z, o, w
  <2>3. s % s = z /\ s % w = s
    BY <1>1, <2>2, Quotient
  <2>4. QED
    BY <1>1, <2>3 DEF z, w, s
<1>3. ASSUME NEW m \in 0 .. s, Is(m)
      PROVE  m = k
  <2>1. m \in Nat
    BY <1>1
  <2>2. CASE m < k
    <3>1. 2 ^ (m + 1) \in Nat \ {0} /\ 2 ^ (k - (m + 1)) \in Nat /\ s = 2 ^ (m + 1) * 2 ^ (k - (m + 1))
      BY <2>1, <2>2, PowersGrow
    <3> DEFINE a == 2 ^ (m + 1)
               c == 2 ^ (k - (m + 1))
               z == 0
    <3>2. a \in Nat \ {0} /\ c \in Int /\ z \in 0 .. a - 1 /\ s = a * c + z /\ s \in Nat
      BY <1>1, <3>1
    <3> HIDE DEF a, c, z, s
    <3>3. s % a = z
      BY <3>2, Quotient
    <3>4. QED
      BY <1>3, <3>3 DEF a, z
  <2>3. CASE m > k
    <3>1. 2 ^ (k + 1) <= 2 ^ m /\ 2 ^ m \in Nat \ {0}
      BY <2>1, <2>3, PowersGrow
    <3> DEFINE a == 2 ^ m
               z == 0
    <3>2. a \in Nat \ {0} /\ z \in Int /\ s \in 0 .. a - 1 /\ s = a * z + s /\ s \in Nat
      BY <1>1, <3>1
    <3> HIDE DEF a, z, s
    <3>3. s % a = s
      BY <3>2, Quotient
    <3>4. QED
      BY <1>1, <1>3, <3>3 DEF a
  <2>4. QED
    BY <2>1, <2>2, <2>3
<1>4. LowestBit(s) = CHOOSE m \in 0 .. s : Is(m)
  BY DEF LowestBit
<1> HIDE DEF Is
<1>5. LowestBit(s) = k
  BY <1>1, <1>2, <1>3, <1>4
<1>6. QED
  BY <1>1, <1>5

\* A number that is not 0 has a lowest bit.
LEMMA Divides ==
  ASSUME NEW size \in Nat \ {0}
  PROVE  \E k \in 0 .. size : size % 2 ^ k = 0 /\ size % 2 ^ (k + 1) # 0
<1> DEFINE S == {m \in Nat : size % 2 ^ m # 0}
<1>1. size \in S
  <2> DEFINE a == 2 ^ size
             z == 0
  <2>1. a \in Nat \ {0} /\ z \in Int /\ size \in 0 .. a - 1 /\ size = a * z + size
    BY Exceeds, TwoToThe
  <2> HIDE DEF a, z
  <2>2. size % a = size
    BY <2>1, Quotient
  <2>3. QED
    BY <2>2 DEF a
<1>2. PICK m \in S : \A p \in S : m <= p
  BY <1>1, Least
<1>3. m # 0
  <2>1. 2 ^ 0 = 1 /\ size % 1 = 0
    OBVIOUS
  <2>2. QED
    BY <1>2, <2>1
<1> DEFINE k == m - 1
<1>4. k \in Nat /\ k + 1 = m /\ k < m /\ k \in 0 .. size
  BY <1>1, <1>2, <1>3
<1>5. k \notin S
  BY <1>2, <1>4
<1> HIDE DEF k
<1>6. QED
  BY <1>2, <1>4, <1>5

\* The sizes that allocate accepts are the page pool's: powers of two, no larger than a chunk.
LEMMA Requested ==
  ASSUME NEW size \in Nat
  PROVE  /\ ValidSize(size) <=> size \in Pages!Sizes
         /\ ValidSize(size) => RequestDepth(size) \in Levels /\ size = Width(RequestDepth(size))
<1>1. ASSUME NEW k \in 0 .. Depth, size = 2 ^ k
      PROVE  /\ ValidSize(size) /\ RequestDepth(size) \in Levels
             /\ size = Width(RequestDepth(size))
  <2>1. k \in Nat /\ Depth \in Nat /\ k <= Depth
    BY Constants
  <2>2. size > 0 /\ LowestBit(size) = k
    BY <1>1, <2>1, Powers
  <2>3. size \div 2 ^ k = 1
    <3> DEFINE z == 0
               o == 1
    <3>1. z \in 0 .. size - 1 /\ o \in Int /\ size = size * o + z /\ size \in Nat \ {0}
      BY <2>2
    <3> HIDE DEF z, o
    <3>2. size \div size = o
      BY <3>1, Quotient
    <3>3. QED
      BY <1>1, <3>2 DEF o
  <2>4. RequestDepth(size) = Depth - k /\ Depth - (Depth - k) = k
    BY <2>1, <2>2 DEF RequestDepth
  <2>5. QED
    BY <1>1, <2>1, <2>2, <2>3, <2>4 DEF ValidSize, Levels, Width
<1>2. ASSUME ValidSize(size)
      PROVE  \E k \in 0 .. Depth : size = 2 ^ k
  <2> DEFINE k == LowestBit(size)
  <2>1. size > 0 /\ size \div 2 ^ k = 1 /\ k <= Depth
    BY <1>2 DEF ValidSize
  <2>2. k \in 0 .. size /\ size % 2 ^ k = 0
    <3>1. \E m \in 0 .. size : size % 2 ^ m = 0 /\ size % 2 ^ (m + 1) # 0
      BY <2>1, Divides
    <3>2. QED
      BY <3>1 DEF LowestBit
  <2> HIDE DEF k
  <2>3. k \in 0 .. Depth /\ k \in Nat
    BY <2>1, <2>2, Constants
  <2> DEFINE a == 2 ^ k
  <2>4. a \in Nat \ {0}
    BY <2>3, TwoToThe
  <2>5. size = a * (size \div a) + (size % a)
    BY <2>4, Division
  <2>6. size = a
    BY <2>1, <2>2, <2>4, <2>5 DEF a
  <2>7. QED
    BY <2>3, <2>6
<1>3. size \in Pages!Sizes <=> \E k \in 0 .. Depth : size = 2 ^ k
  BY DEF Pages!Sizes
<1>4. QED
  BY <1>1, <1>2, <1>3

(***************************************************************************)
(* The inductive invariant: the heap is sound, the pages of flags are in   *)
(* use, and the mappings are numbered in their order.                      *)
(***************************************************************************)
\* The trees that are mapped are the first ones.
Numbered(C) == \E m \in 0 .. MaxTrees : \A t \in Trees : C[t] > 0 <=> t < m

\* The inductive invariant: lists and trees that agree, a page of flags in use in every tree, and
\* trees numbered in the order they were made.
Inv == Listed(Heap, chunks) /\ Kept(flags, chunks) /\ Numbered(chunks)

\* ntrees counts the trees that are there.
LEMMA Counted ==
  ASSUME chunks \in [Trees -> ChunkCounts \cup {0}], Numbered(chunks)
  PROVE  ntrees \in 0 .. MaxTrees /\ \A t \in Trees : chunks[t] > 0 <=> t < ntrees
<1>1. PICK m \in 0 .. MaxTrees : \A t \in Trees : chunks[t] > 0 <=> t < m
  BY DEF Numbered
<1>2. MaxTrees \in Nat /\ m \in Nat /\ m <= MaxTrees
  BY <1>1, Constants
<1>3. {t \in Trees : chunks[t] > 0} = 0 .. m - 1
  BY <1>1, <1>2 DEF Trees
<1>4. Cardinality(0 .. m - 1) = m
  <2> DEFINE z == 0
             e == m - 1
  <2>1. z \in Int /\ e \in Int
    BY <1>2
  <2>2. Cardinality(z .. e) = IF z > e THEN 0 ELSE e - z + 1
    BY <2>1, FS_Interval
  <2>3. (IF z > e THEN 0 ELSE e - z + 1) = m
    BY <1>2
  <2>4. QED
    BY <2>2, <2>3
<1>5. ntrees = m
  BY <1>3, <1>4 DEF ntrees
<1>6. QED
  BY <1>1, <1>5

\* The block of the page of flags covers page 0 of chunk 0.
LEMMA FlagsPage ==
  ASSUME NEW F, NEW c \in 0 .. MaxChunks, c > 0, Tree(F, c), F[FlagsNode] = InUseFlag(Depth)
  PROVE  /\ FlagsNode = Over(0, Depth, 0) /\ 0 \in 0 .. c - 1 /\ FlagsNode \in Nodes
         /\ Leaf(F, FlagsNode) /\ ~F[FlagsNode].free /\ ~F[FlagsNode].inner
         /\ \A l \in Levels : Leaf(F, Over(0, l, 0)) => l = Depth
<1>1. c \in Nat /\ 0 \in 0 .. c - 1
  BY Constants
<1>2. FlagsNode = Over(0, Depth, 0)
  BY Zeroth DEF Over
<1>3. ~F[FlagsNode].free /\ ~F[FlagsNode].inner
  BY DEF InUseFlag, Flag
<1>4. ASSUME NEW l \in Levels, Leaf(F, Over(0, l, 0))
      PROVE  l = Depth
  <2> DEFINE z == 0
  <2>1. z \in 0 .. c - 1 /\ z \in InChunk /\ Leaf(F, Over(z, Depth, z)) /\ Leaf(F, Over(z, l, z))
        /\ Covered(F, c) /\ Depth \in Levels
    BY <1>1, <1>2, <1>3, <1>4, Zeroth DEF Leaf, Tree
  <2> HIDE DEF z
  <2>2. QED
    BY <2>1, OneLeaf
<1>5. FlagsNode \in Nodes
  <2> DEFINE z == 0
  <2>1. z \in 0 .. c - 1 /\ z \in At(Depth) /\ FlagsNode = N(z, Depth, z) /\ Depth \in Levels
    BY <1>1, Zeroth
  <2> HIDE DEF z
  <2>2. QED
    BY <2>1, InNodes
<1>6. QED
  BY <1>1, <1>2, <1>3, <1>4, <1>5 DEF Leaf

\* The page of flags is on a path only below the node the path starts from.
LEMMA KeptDivided ==
  ASSUME NEW F, NEW G, NEW c \in 0 .. MaxChunks, c > 0, Tree(F, c), F[FlagsNode] = InUseFlag(Depth),
         NEW j \in 0 .. c - 1, NEW q \in InChunk, NEW a \in Levels, NEW d \in Levels, a <= d,
         F[Over(j, a, q)].free, Divided(G, F, j, q, a, d)
  PROVE  G[FlagsNode] = InUseFlag(Depth)
<1>1. /\ FlagsNode = Over(0, Depth, 0) /\ FlagsNode \in Nodes /\ ~F[FlagsNode].free
      /\ \A l \in Levels : Leaf(F, Over(0, l, 0)) => l = Depth
  BY FlagsPage
<1>2. j \in Nat /\ Depth \in Levels /\ 0 \in InChunk /\ Depth \in Nat
  BY Constants, Zeroth
<1>3. FlagsNode \notin Path(j, q, a, d)
  <2>1. SUFFICES ASSUME FlagsNode \in Path(j, q, a, d)
                 PROVE  FALSE
    OBVIOUS
  <2> DEFINE z == 0
  <2>2. z \in Nat /\ z \in InChunk /\ Over(z, Depth, z) \in Path(j, q, a, d)
    BY <1>1, <1>2, <2>1
  <2> HIDE DEF z
  <2>3. z = j /\ Up(a, z) = Up(a, q)
    BY <1>2, <2>2, PathBelow
  <2>4. Over(z, a, z) = Over(j, a, q)
    BY <2>3 DEF Over
  <2>5. Leaf(F, Over(0, a, 0))
    BY <2>4 DEF z, Leaf
  <2>6. a = Depth
    BY <1>1, <2>5
  <2>7. QED
    BY <1>1, <2>4, <2>6 DEF z
<1>4. QED
  BY <1>1, <1>3 DEF Divided

\* A coalescing that does not start from the page of flags keeps it in use: being in use,
\* the page is no free sibling either.
LEMMA KeptCoalesced ==
  ASSUME NEW F, NEW G, NEW c \in 0 .. MaxChunks, c > 0, Tree(F, c), F[FlagsNode] = InUseFlag(Depth),
         NEW j \in 0 .. c - 1, NEW q \in InChunk, NEW a \in Levels, NEW d \in Levels, a <= d,
         Over(j, d, q) # FlagsNode, ~F[Over(j, d, q)].free, ~F[Over(j, d, q)].inner,
         \A m \in a + 1 .. d : F[N(j, m, Twin(Up(m, q)))].free,
         Coalescing(G, F, j, q, a, d)
  PROVE  G[FlagsNode] = InUseFlag(Depth)
<1>1. /\ FlagsNode = Over(0, Depth, 0) /\ FlagsNode \in Nodes /\ ~F[FlagsNode].free
  BY FlagsPage
<1>2. /\ j \in Nat /\ Depth \in Levels /\ 0 \in InChunk /\ Depth \in Nat
      /\ \A l \in Levels : l \in Nat /\ l <= Depth
  BY Constants, Zeroth, Widths
<1>3. FlagsNode \notin Path(j, q, a, d)
  <2>1. SUFFICES ASSUME FlagsNode \in Path(j, q, a, d)
                 PROVE  FALSE
    OBVIOUS
  <2> DEFINE z == 0
  <2>2. z \in Nat /\ z \in InChunk /\ Over(z, Depth, z) \in Path(j, q, a, d)
    BY <1>1, <1>2, <2>1
  <2> HIDE DEF z
  <2>3. /\ z = j /\ Depth \in a .. d
        /\ (Up(Depth, z) = Up(Depth, q) \/ (Depth > a /\ Up(Depth, z) = Twin(Up(Depth, q))))
    BY <1>2, <2>2, PathBelow
  <2>4. d = Depth
    BY <1>2, <2>3
  <2>5. Up(Depth, z) # Up(Depth, q)
    BY <1>1, <2>3, <2>4 DEF Over, z
  <2>6. Depth \in a + 1 .. d /\ FlagsNode = N(j, Depth, Twin(Up(Depth, q)))
    BY <1>1, <1>2, <2>3, <2>4, <2>5 DEF Over, z
  <2>7. QED
    BY <1>1, <2>6
<1>4. QED
  BY <1>1, <1>3 DEF Coalescing

\* What Listed says, part by part.
LEMMA Sound ==
  ASSUME NEW h, NEW C, Listed(h, C)
  PROVE  /\ h \in HeapType /\ Forest(h.flags, C) /\ Lists(h, FreeAt(h.flags, C)) /\ Named(h, C)
         /\ C \in [Trees -> ChunkCounts \cup {0}] /\ h.flags \in [Trees -> [Nodes -> FlagType]]
         /\ h.head \in [Levels -> Addresses \cup {NULL}] /\ h.hdr \in [Addresses -> HeaderType]
         /\ \A t \in Trees : Tree(h.flags[t], C[t]) /\ C[t] \in 0 .. MaxChunks /\ C[t] \in Nat
<1>1. h \in HeapType /\ Forest(h.flags, C) /\ Lists(h, FreeAt(h.flags, C)) /\ Named(h, C)
  BY DEF Listed
<1>2. /\ C \in [Trees -> ChunkCounts \cup {0}] /\ \A t \in Trees : Tree(h.flags[t], C[t])
  BY <1>1 DEF Forest
<1>3. /\ h.flags \in [Trees -> [Nodes -> FlagType]]
      /\ h.head \in [Levels -> Addresses \cup {NULL}] /\ h.hdr \in [Addresses -> HeaderType]
  BY <1>1 DEF HeapType
<1>4. QED
  BY <1>1, <1>2, <1>3, Chunks

\* The list taken from is one of the request's level or above, and not empty.
LEMMA BestIs ==
  ASSUME NEW h, NEW d \in Levels, Candidates(h, d) # {}
  PROVE  /\ BestLevel(h, d) \in Levels /\ BestLevel(h, d) <= d /\ h.head[BestLevel(h, d)] # NULL
<1> DEFINE S == Candidates(h, d)
<1>1. d \in Nat /\ Depth \in Nat /\ d <= Depth
  BY Constants DEF Levels
<1>2. S \subseteq 0 .. d /\ S # {}
  BY DEF Candidates
<1>3. \E p \in S : \A q \in S : q <= p
  BY <1>1, <1>2, Greatest
<1>4. BestLevel(h, d) \in S
  <2>1. BestLevel(h, d) = CHOOSE p \in S : \A q \in S : q <= p
    BY DEF BestLevel
  <2> HIDE DEF S
  <2>2. QED
    BY <1>3, <2>1
<1>5. QED
  BY <1>1, <1>2, <1>4 DEF Levels, Candidates

\* Taking a block from the best list.
Taken(h, d) == Divide(h, h.head[BestLevel(h, d)], BestLevel(h, d), d)
\* R is what is left of heap h when a free block of level a is divided down to level d.
Takes(h, C, a, d, R) ==
  \E t \in Trees : \E j \in 0 .. C[t] - 1, q \in InChunk :
    /\ h.flags[t][Over(j, a, q)].free
    /\ R.block = <<t, Over(j, d, q)>>
    /\ Divided(R.heap.flags[t], h.flags[t], j, q, a, d)
    /\ \A u \in Trees \ {t} : R.heap.flags[u] = h.flags[u]

\* Taking the first block of the best list and splitting it keeps the invariant.
LEMMA TakeGood ==
  ASSUME NEW h, NEW C, Listed(h, C), Kept(h.flags, C), NEW d \in Levels, Candidates(h, d) # {}
  PROVE  /\ Listed(Taken(h, d).heap, C) /\ Kept(Taken(h, d).heap.flags, C)
         /\ BestLevel(h, d) \in Levels /\ BestLevel(h, d) <= d
         /\ Takes(h, C, BestLevel(h, d), d, Taken(h, d))
<1> DEFINE a == BestLevel(h, d)
           R == Divide(h, h.head[a], a, d)
<1>1. a \in Levels /\ a <= d /\ h.head[a] # NULL
  BY BestIs
<1> HIDE DEF a
<1>2. /\ Listed(R.heap, C)
      /\ \E t \in Trees : \E j \in 0 .. C[t] - 1, i \in At(a) :
           /\ h.flags[t][N(j, a, i)].free
           /\ R.block = <<t, Over(j, d, i * Width(a))>>
           /\ Divided(R.heap.flags[t], h.flags[t], j, i * Width(a), a, d)
           /\ \A u \in Trees \ {t} : R.heap.flags[u] = h.flags[u]
  BY ONLY <1>1, DivideGood, d \in Levels, Listed(h, C)
<1> HIDE DEF R
<1>9. PICK t \in Trees : \E j \in 0 .. C[t] - 1, i \in At(a) :
           /\ h.flags[t][N(j, a, i)].free
           /\ R.block = <<t, Over(j, d, i * Width(a))>>
           /\ Divided(R.heap.flags[t], h.flags[t], j, i * Width(a), a, d)
           /\ \A u \in Trees \ {t} : R.heap.flags[u] = h.flags[u]
  BY <1>2
<1>3. PICK j \in 0 .. C[t] - 1, i \in At(a) :
           /\ h.flags[t][N(j, a, i)].free
           /\ R.block = <<t, Over(j, d, i * Width(a))>>
           /\ Divided(R.heap.flags[t], h.flags[t], j, i * Width(a), a, d)
           /\ \A u \in Trees \ {t} : R.heap.flags[u] = h.flags[u]
  BY <1>9
<1> DEFINE q == i * Width(a)
<1>4. q \in InChunk /\ Over(j, a, q) = N(j, a, i)
  BY <1>1, FirstPage DEF Over
<1> HIDE DEF q
<1>5. /\ Divided(R.heap.flags[t], h.flags[t], j, q, a, d) /\ R.block = <<t, Over(j, d, q)>>
      /\ h.flags[t][Over(j, a, q)].free
  BY <1>3, <1>4 DEF q
<1>6. ASSUME NEW u \in Trees, C[u] > 0
      PROVE  R.heap.flags[u][FlagsNode] = InUseFlag(Depth)
  <2>1. h.flags[u][FlagsNode] = InUseFlag(Depth)
    BY <1>6 DEF Kept
  <2>2. CASE u = t
    <3>1. Tree(h.flags[t], C[t]) /\ C[t] \in 0 .. MaxChunks
      BY Sound
    <3>2. QED
      BY <1>1, <1>4, <1>5, <1>6, <2>1, <2>2, <3>1, KeptDivided
  <2>3. CASE u # t
    BY <1>3, <2>1, <2>3
  <2>4. QED
    BY <2>2, <2>3
<1>7. Kept(R.heap.flags, C)
  BY <1>6 DEF Kept
<1>8. QED
  BY <1>1, <1>2, <1>3, <1>4, <1>5, <1>7 DEF a, R, Taken, Takes

\* A new tree: its page of flags is in use and a block of level 0 is free.
LEMMA AddGood ==
  ASSUME NEW h, NEW C, Listed(h, C), Kept(h.flags, C), h.head[0] = NULL, NEW t \in Trees, C[t] = 0,
         NEW c \in ChunkCounts, NEW d \in Levels
  PROVE  LET R == AddTree(h, t, c)
             D == [C EXCEPT ![t] = c]
         IN  /\ Listed(R, D) /\ Kept(R.flags, D) /\ Candidates(R, d) # {}
             /\ Divided(R.flags[t], Fresh(c), 0, 0, 0, Depth)
             /\ \A u \in Trees \ {t} : R.flags[u] = h.flags[u]
<1> DEFINE R == AddTree(h, t, c)
           D == [C EXCEPT ![t] = c]
<1>1. /\ Listed(R, D) /\ Divided(R.flags[t], Fresh(c), 0, 0, 0, Depth)
      /\ \A u \in Trees \ {t} : R.flags[u] = h.flags[u]
  BY AddTreeGood
<1>2. C \in [Trees -> ChunkCounts \cup {0}]
  BY Sound
<1>3. D[t] = c /\ \A u \in Trees \ {t} : D[u] = C[u]
  BY <1>2
<1>4. c \in Nat /\ c >= 2 /\ c \in 0 .. MaxChunks /\ 0 \in 0 .. c - 1 /\ 1 \in 0 .. c - 1
  BY Constants
<1> HIDE DEF R, D
<1>5. R.flags[t][FlagsNode] = InUseFlag(Depth)
  BY <1>1, Zeroth DEF Over, Divided
<1>6. Kept(R.flags, D)
  BY <1>1, <1>3, <1>5 DEF Kept
<1>7. R.head[0] # NULL
  <2> DEFINE z == 0
             o == 1
  <2>1. /\ z \in Levels /\ z \in At(z) /\ o \in 0 .. c - 1 /\ o \in Nat /\ z \in Nat /\ z \in InChunk
        /\ Depth \in Levels /\ z <= Depth /\ z \in 0 .. c - 1 /\ o # z
        /\ Divided(R.flags[t], Fresh(c), z, z, z, Depth) /\ o \in 0 .. D[t] - 1
    BY <1>1, <1>3, <1>4, Zeroth, Constants
  <2>2. Fresh(c)[N(o, z, z)].free
    BY <1>4, FreshTree, Zeroth
  <2> HIDE DEF z, o
  <2>3. N(o, z, z) \in Nodes
    BY <1>4, <2>1, InNodes
  <2>4. N(o, z, z) \notin Path(z, z, z, Depth)
    BY <2>1, OnPath
  <2>5. R.flags[t][N(o, z, z)].free
    BY <2>1, <2>2, <2>3, <2>4 DEF Divided
  <2>6. FreeNode(R.flags, D, t, o, z, z)
    BY <2>1, <2>5 DEF FreeNode
  <2>7. /\ D \in [Trees -> ChunkCounts \cup {0}] /\ Lists(R, FreeAt(R.flags, D))
    BY <1>1, Sound
  <2>8. FreeAt(R.flags, D)[z] # {}
    BY <2>1, <2>6, <2>7, FreeAtIs
  <2>9. Linked(R.hdr, R.head[z], FreeAt(R.flags, D)[z]) /\ FreeAt(R.flags, D)[z] \in SUBSET Addresses
    BY <2>1, <2>7 DEF Lists
  <2>10. R.head[z] # NULL
    BY <2>8, <2>9, EmptyList
  <2>11. QED
    BY <2>10 DEF z
<1>8. 0 \in 0 .. d /\ 0 \in Candidates(R, d)
  BY <1>7, Constants DEF Levels, Candidates
<1>9. QED
  BY <1>1, <1>6, <1>8 DEF R, D

\* Every slot of a tree but the last of each chunk is the node above some page.
LEMMA NodeIs ==
  ASSUME NEW c \in Nat, NEW n \in Nodes, n < c * Slots, Local(n) # Slots - 1
  PROVE  \E j \in 0 .. c - 1, l \in Levels, q \in InChunk :
           /\ n = Over(j, l, q) /\ n = N(j, l, Up(l, q)) /\ q = Up(l, q) * Width(l)
           /\ Up(l, q) \in At(l)
<1>1. n \in Nat
  BY DEF Nodes
<1>2. PICK j \in Nat, l \in Levels : \E i \in At(l) : n = N(j, l, i)
  BY <1>1, NumberOf
<1>3. PICK i \in At(l) : n = N(j, l, i)
  BY <1>2
<1>4. j \in 0 .. c - 1
  BY <1>3, InTree
<1> DEFINE q == i * Width(l)
<1>5. q \in InChunk /\ Up(l, q) = i
  BY FirstPage
<1> HIDE DEF q
<1>6. QED
  BY <1>3, <1>4, <1>5 DEF Over, q

\* Node n of tree t was given back and R is the heap that its merges leave.
Gives(h, C, t, n, R) ==
  /\ Listed(R, C) /\ Kept(R.flags, C)
  /\ \A u \in Trees \ {t} : R.flags[u] = h.flags[u]
  /\ \E j \in 0 .. C[t] - 1, q \in InChunk, d \in Levels, a \in Levels :
       /\ n = Over(j, d, q) /\ a <= d
       /\ Coalescing(R.flags[t], h.flags[t], j, q, a, d)
       /\ \A m \in a + 1 .. d : h.flags[t][N(j, m, Twin(Up(m, q)))].free

\* Giving back a block that is in use, and not the page of flags, keeps it too.
LEMMA GiveGood ==
  ASSUME NEW h, NEW C, Listed(h, C), Kept(h.flags, C), NEW t \in Trees, NEW n \in Nodes,
         n < C[t] * Slots, Local(n) # Slots - 1, n # FlagsNode,
         ~h.flags[t][n].free, ~h.flags[t][n].inner
  PROVE  Gives(h, C, t, n, Coalesce(h, <<t, n>>))
<1> DEFINE R == Coalesce(h, <<t, n>>)
<1>1. Tree(h.flags[t], C[t]) /\ C[t] \in 0 .. MaxChunks /\ C[t] \in Nat
  BY Sound
<1>2. PICK j \in 0 .. C[t] - 1, d \in Levels, q \in InChunk :
         /\ n = Over(j, d, q) /\ n = N(j, d, Up(d, q)) /\ q = Up(d, q) * Width(d)
         /\ Up(d, q) \in At(d)
  BY <1>1, NodeIs
<1> DEFINE i == Up(d, q)
<1>3. i \in At(d) /\ n = N(j, d, i) /\ q = i * Width(d) /\ <<t, n>> = Block(t, j, d, i)
  BY <1>2 DEF Block
<1> HIDE DEF i, R
<1>4. /\ Listed(R, C)
      /\ \A u \in Trees \ {t} : R.flags[u] = h.flags[u]
      /\ \E a \in 0 .. d :
           /\ Coalescing(R.flags[t], h.flags[t], j, q, a, d)
           /\ \A m \in a + 1 .. d : h.flags[t][N(j, m, Twin(Up(m, q)))].free
  BY <1>3, CoalesceGood DEF R
<1>5. PICK a \in 0 .. d :
           /\ Coalescing(R.flags[t], h.flags[t], j, q, a, d)
           /\ \A m \in a + 1 .. d : h.flags[t][N(j, m, Twin(Up(m, q)))].free
  BY <1>4
<1>6. a \in Levels /\ a <= d
  BY Constants DEF Levels
<1>7. C[t] > 0
  BY <1>1, <1>2
<1>8. R.flags[t][FlagsNode] = InUseFlag(Depth)
  BY <1>1, <1>2, <1>5, <1>6, <1>7, KeptCoalesced DEF Kept
<1>9. Kept(R.flags, C)
  BY <1>4, <1>8 DEF Kept
<1>10. QED
  BY <1>2, <1>4, <1>5, <1>6, <1>9 DEF R, Gives

\* The heap after the step.
LEMMA Became ==
  ASSUME NEW R \in HeapType, HeapBecomes(R)
  PROVE  Heap' = R
<1>1. Heap' = [flags |-> R.flags, head |-> R.head, hdr |-> R.hdr]
  BY DEF Heap, HeapBecomes
<1>2. R = [flags |-> R.flags, head |-> R.head, hdr |-> R.hdr]
  BY DEF HeapType
<1>3. QED
  BY <1>1, <1>2

\* The invariant holds of a pool without trees.
LEMMA InitInv ==
  ASSUME Init
  PROVE  Inv
<1>1. /\ chunks = [t \in Trees |-> 0] /\ flags = [t \in Trees |-> [n \in Nodes |-> ZeroFlag]]
      /\ head = [l \in Levels |-> NULL] /\ hdr = [a \in Addresses |-> NoHeader]
  BY DEF Init
<1>2. ZeroFlag \in FlagType
  BY Zeroth DEF ZeroFlag, InUseFlag, Flag, FlagType
<1>3. NoHeader \in HeaderType
  BY DEF NoHeader, HeaderType, NoBlock, NULL
<1>4. Heap \in HeapType
  BY <1>1, <1>2, <1>3 DEF Heap, HeapType
<1>5. Heap.flags = flags /\ Heap.head = head /\ Heap.hdr = hdr
  BY DEF Heap
<1>6. 0 .. 0 - 1 = {} /\ \A t \in Trees : chunks[t] = 0
  BY <1>1
<1>7. Forest(flags, chunks)
  BY <1>1, <1>2, <1>6 DEF FlagsType, Tree, Covered, Depths, Merged, Forest
<1>8. Lists(Heap, FreeAt(flags, chunks))
  <2> DEFINE S == FreeAt(flags, chunks)
  <2>1. S \in [Levels -> SUBSET Addresses]
    BY DEF FreeAt
  <2>2. \A l \in Levels : S[l] = {}
    BY <1>6 DEF FreeAt
  <2> HIDE DEF S
  <2>3. \A l \in Levels : Linked(hdr, head[l], S[l])
    BY <1>1, <2>2 DEF Linked
  <2>4. \A l \in Levels : Linked(Heap.hdr, Heap.head[l], S[l])
    BY ONLY <1>5, <2>3
  <2>5. \A l, m \in Levels : l # m => S[l] \cap S[m] = {}
    BY ONLY <2>2
  <2>6. QED
    BY ONLY <2>1, <2>4, <2>5 DEF Lists, S
<1>9. Named(Heap, chunks)
  BY <1>6 DEF Named
<1>10. Kept(flags, chunks) /\ Numbered(chunks)
  BY <1>6, Constants DEF Trees, Kept, Numbered
<1>11. QED
  BY <1>4, <1>5, <1>7, <1>8, <1>9, <1>10 DEF Inv, Listed

\* What the invariant says of the variables.
LEMMA InvIs ==
  ASSUME Inv
  PROVE  /\ Listed(Heap, chunks) /\ Kept(flags, chunks)
         /\ Heap.flags = flags /\ Heap.head = head /\ Heap.hdr = hdr
         /\ chunks \in [Trees -> ChunkCounts \cup {0}]
         /\ ntrees \in 0 .. MaxTrees /\ \A t \in Trees : chunks[t] > 0 <=> t < ntrees
<1>1. Listed(Heap, chunks) /\ Kept(flags, chunks) /\ Numbered(chunks)
  BY DEF Inv
<1>2. chunks \in [Trees -> ChunkCounts \cup {0}]
  BY <1>1, Sound
<1>3. QED
  BY <1>1, <1>2, Counted DEF Heap

\* The next tree: none yet, and the numbering goes on.
LEMMA NextTree ==
  ASSUME Inv, ntrees < MaxTrees, NEW c \in ChunkCounts
  PROVE  ntrees \in Trees /\ chunks[ntrees] = 0 /\ Numbered([chunks EXCEPT ![ntrees] = c])
<1> DEFINE m == ntrees
           D == [chunks EXCEPT ![m] = c]
<1>1. /\ chunks \in [Trees -> ChunkCounts \cup {0}] /\ m \in 0 .. MaxTrees
      /\ \A t \in Trees : chunks[t] > 0 <=> t < m
  BY InvIs
<1>2. m < MaxTrees /\ c \in Nat /\ c >= 2 /\ \A t \in Trees : chunks[t] \in Nat
  BY <1>1, Constants, Chunks
<1> HIDE DEF m
<1>3. m \in Trees /\ m \in Nat /\ MaxTrees \in Nat
  BY <1>1, <1>2, Constants DEF Trees
<1>4. chunks[m] = 0
  BY <1>1, <1>2, <1>3
<1>5. \A t \in Trees : D[t] = IF t = m THEN c ELSE chunks[t]
  BY <1>1
<1> HIDE DEF D
<1>6. m + 1 \in 0 .. MaxTrees /\ \A t \in Trees : D[t] > 0 <=> t < m + 1
  BY <1>1, <1>2, <1>3, <1>5 DEF Trees
<1>7. Numbered(D)
  BY <1>6 DEF Numbered
<1>8. QED
  BY <1>3, <1>4, <1>7 DEF D, m

\* An allocation served from the lists keeps it.
LEMMA AllocateFreeInv ==
  ASSUME Inv, NEW size \in Nat, AllocateFree(size)
  PROVE  Inv'
<1> DEFINE d == RequestDepth(size)
           R == Taken(Heap, d)
<1>1. ValidSize(size) /\ Candidates(Heap, d) # {} /\ HeapBecomes(R.heap) /\ UNCHANGED chunks
  BY DEF AllocateFree, TakeFrom, Taken
<1>2. d \in Levels
  BY <1>1, Requested
<1>3. /\ Listed(Heap, chunks) /\ Kept(Heap.flags, chunks) /\ Numbered(chunks)
  BY InvIs DEF Inv
<1> HIDE DEF d
<1>4. Listed(R.heap, chunks) /\ Kept(R.heap.flags, chunks)
  BY <1>1, <1>2, <1>3, TakeGood
<1>5. R.heap \in HeapType
  BY <1>4, Sound
<1> HIDE DEF R
<1>6. Heap' = R.heap /\ flags' = R.heap.flags
  BY <1>1, <1>5, Became DEF HeapBecomes
<1>7. QED
  BY <1>1, <1>3, <1>4, <1>6 DEF Inv

\* No list of a level above the request has a block, that of the roots included.
LEMMA NoRoots ==
  ASSUME NEW h, NEW d \in Levels, Candidates(h, d) = {}
  PROVE  \A l \in 0 .. d : h.head[l] = NULL
BY DEF Candidates

\* An allocation served from a new tree keeps it.
LEMMA AllocateNewInv ==
  ASSUME Inv, NEW size \in Nat, AllocateFromNewTree(size)
  PROVE  Inv'
<1> DEFINE d == RequestDepth(size)
           t == ntrees
<1>1. ValidSize(size) /\ Candidates(Heap, d) = {} /\ t < MaxTrees
  BY DEF AllocateFromNewTree
<1>2. PICK c \in ChunkCounts : /\ chunks' = [chunks EXCEPT ![t] = c]
                               /\ TakeFrom(AddTree(Heap, t, c), size)
  BY DEF AllocateFromNewTree
<1> DEFINE A == AddTree(Heap, t, c)
           D == [chunks EXCEPT ![t] = c]
           R == Taken(A, d)
<1>3. d \in Levels /\ d \in Nat
  BY <1>1, Requested DEF Levels
<1>4. HeapBecomes(R.heap) /\ chunks' = D
  BY <1>2 DEF TakeFrom, Taken
<1>5. t \in Trees /\ chunks[t] = 0 /\ Numbered(D)
  BY <1>1, NextTree
<1>6. Listed(Heap, chunks) /\ Kept(Heap.flags, chunks)
  BY InvIs
<1>7. Heap.head[0] = NULL
  BY <1>1, <1>3, NoRoots
<1> HIDE DEF d, t
<1>8. Listed(A, D) /\ Kept(A.flags, D) /\ Candidates(A, d) # {}
  BY <1>3, <1>5, <1>6, <1>7, AddGood
<1> HIDE DEF A, D
<1>9. Listed(R.heap, D) /\ Kept(R.heap.flags, D)
  BY <1>3, <1>8, TakeGood
<1>10. R.heap \in HeapType
  BY <1>9, Sound
<1> HIDE DEF R
<1>11. Heap' = R.heap /\ flags' = R.heap.flags
  BY <1>4, <1>10, Became DEF HeapBecomes
<1>12. QED
  BY <1>4, <1>5, <1>9, <1>11 DEF Inv

\* What a client may give back is a node, and in use.
LEMMA Given ==
  ASSUME Inv, NEW b \in Handles \cup {NoBlock}, Deallocatable(b)
  PROVE  /\ b = <<b[1], b[2]>> /\ b[1] \in Trees /\ b[2] \in Nodes
         /\ b[2] < chunks[b[1]] * Slots /\ Local(b[2]) # Slots - 1 /\ b[2] # FlagsNode
         /\ ~flags[b[1]][b[2]].free /\ ~flags[b[1]][b[2]].inner
BY DEF Deallocatable, Handles

\* A deallocation keeps it.
LEMMA DeallocateInv ==
  ASSUME Inv, NEW b \in Handles \cup {NoBlock}, Deallocate(b)
  PROVE  Inv'
<1> DEFINE R == Coalesce(Heap, <<b[1], b[2]>>)
           t == b[1]
           n == b[2]
<1>1. Deallocatable(b) /\ HeapBecomes(Coalesce(Heap, b)) /\ UNCHANGED chunks
  BY DEF Deallocate
<1>2. /\ b = <<t, n>> /\ t \in Trees /\ n \in Nodes
      /\ n < chunks[t] * Slots /\ Local(n) # Slots - 1 /\ n # FlagsNode
      /\ ~flags[t][n].free /\ ~flags[t][n].inner
  BY <1>1, Given
<1>3. Listed(Heap, chunks) /\ Kept(Heap.flags, chunks) /\ Numbered(chunks) /\ Heap.flags = flags
  BY InvIs DEF Inv
<1>4. HeapBecomes(R)
  BY <1>1, <1>2
<1> HIDE DEF t, n
<1>5. Gives(Heap, chunks, t, n, Coalesce(Heap, <<t, n>>))
  BY <1>2, <1>3, GiveGood
<1>6. Listed(R, chunks) /\ Kept(R.flags, chunks)
  BY <1>5 DEF t, n, Gives
<1>7. R \in HeapType
  BY <1>6, Sound
<1> HIDE DEF R
<1>8. Heap' = R /\ flags' = R.flags
  BY <1>4, <1>7, Became DEF HeapBecomes
<1>9. QED
  BY <1>1, <1>3, <1>6, <1>8 DEF Inv

\* A step that leaves the pool alone keeps it.
LEMMA SameInv ==
  ASSUME Inv, UNCHANGED <<chunks, flags, head, hdr>>
  PROVE  Inv'
<1>1. Heap' = Heap /\ chunks' = chunks /\ flags' = flags
  BY DEF Heap
<1>2. QED
  BY <1>1 DEF Inv

\* Every step keeps it.
LEMMA StepInv ==
  ASSUME Inv, [Next]_vars
  PROVE  Inv'
<1>1. ASSUME NEW size \in 0 .. 2 ^ Depth + 1,
             AllocateFree(size) \/ AllocateFromNewTree(size) \/ AllocateFails(size)
      PROVE  Inv'
  BY <1>1, SlotsAre, SameInv, AllocateFreeInv, AllocateNewInv DEF AllocateFails
<1>2. ASSUME NEW b \in Handles \cup {NoBlock}, Deallocate(b) \/ DeallocateRejected(b)
      PROVE  Inv'
  BY <1>2, SameInv, DeallocateInv DEF DeallocateRejected
<1>3. CASE UNCHANGED vars
  BY <1>3, SameInv DEF vars
<1>4. QED
  BY <1>1, <1>2, <1>3 DEF Next

\* Trees, lists and flags agree in every reachable state of hmesh_tpool_allocate () and
\* hmesh_tpool_deallocate (): the invariant that the other theorems rest on.
THEOREM Invariance == Spec => []Inv
<1>1. Init => Inv
  BY InitInv
<1>2. Inv /\ [Next]_vars => Inv'
  BY StepInv
<1>3. QED
  BY <1>1, <1>2, PTL DEF Spec

(***************************************************************************)
(* What the invariant says of blocks.                                      *)
(***************************************************************************)
\* The flag and the address of a block, from its coordinates.
LEMMA BlockIs ==
  ASSUME Inv, NEW t \in Trees, NEW j \in 0 .. chunks[t] - 1, NEW l \in Levels, NEW i \in At(l)
  PROVE  /\ Block(t, j, l, i) \in Blocks /\ FlagOf(Block(t, j, l, i)) = flags[t][N(j, l, i)]
         /\ flags[t][N(j, l, i)] \in FlagType /\ flags[t][N(j, l, i)].depth = l
         /\ Address(Block(t, j, l, i), l) = Spot(t, j, l, i) /\ j \in Nat
<1>1. /\ Tree(flags[t], chunks[t]) /\ chunks[t] \in 0 .. MaxChunks /\ chunks[t] \in Nat
  BY InvIs, Sound
<1>2. N(j, l, i) \in Nodes /\ j \in Nat /\ j < chunks[t]
  BY <1>1, InNodes
<1>3. N(j, l, i) < chunks[t] * Slots
  BY <1>1, <1>2, InTree
<1>4. Local(N(j, l, i)) # Slots - 1
  BY <1>2, NumberIs, SlotsAre
<1>5. Block(t, j, l, i) \in Blocks
  BY <1>2, <1>3, <1>4 DEF Blocks, Block
<1>6. flags[t][N(j, l, i)] \in FlagType /\ flags[t][N(j, l, i)].depth = l
  BY <1>1, <1>2 DEF Tree, Depths
<1>7. FlagOf(Block(t, j, l, i)) = flags[t][N(j, l, i)]
  BY DEF FlagOf, Block
<1>8. Address(Block(t, j, l, i), l) = Spot(t, j, l, i)
  BY <1>2, AddressIs DEF Block, Spot
<1>9. QED
  BY <1>2, <1>5, <1>6, <1>7, <1>8

\* Every block is a node over some page, by the coordinates.
LEMMA BlockOf ==
  ASSUME Inv, NEW b \in Blocks
  PROVE  \E t \in Trees : \E j \in 0 .. chunks[t] - 1, l \in Levels, q \in InChunk :
           /\ b = Block(t, j, l, Up(l, q)) /\ Up(l, q) \in At(l) /\ q = Up(l, q) * Width(l)
<1>1. /\ b = <<b[1], b[2]>> /\ b[1] \in Trees /\ b[2] \in Nodes
      /\ b[2] < chunks[b[1]] * Slots /\ Local(b[2]) # Slots - 1
  BY DEF Blocks
<1> DEFINE t == b[1]
           n == b[2]
<1>2. chunks[t] \in Nat
  BY <1>1, InvIs, Sound
<1>3. \E j \in 0 .. chunks[t] - 1, l \in Levels, q \in InChunk :
           /\ n = Over(j, l, q) /\ n = N(j, l, Up(l, q)) /\ q = Up(l, q) * Width(l)
           /\ Up(l, q) \in At(l)
  BY <1>1, <1>2, NodeIs
<1>4. QED
  BY <1>1, <1>3 DEF Block

\* The addresses of the free blocks of a level.
LEMMA FreeSpots ==
  ASSUME Inv, NEW l \in Levels
  PROVE  {Address(b, l) : b \in {f \in FreeBlocks : FlagOf(f).depth = l}} = FreeAt(flags, chunks)[l]
<1> DEFINE at == {Address(b, l) : b \in {f \in FreeBlocks : FlagOf(f).depth = l}}
           S == FreeAt(flags, chunks)[l]
<1>1. chunks \in [Trees -> ChunkCounts \cup {0}]
  BY InvIs
<1>2. ASSUME NEW x \in at
      PROVE  x \in S
  <2>1. PICK b \in FreeBlocks : FlagOf(b).depth = l /\ x = Address(b, l)
    OBVIOUS
  <2>2. b \in Blocks /\ FlagOf(b).free
    BY DEF FreeBlocks
  <2>3. PICK t \in Trees : \E j \in 0 .. chunks[t] - 1, m \in Levels, q \in InChunk :
           b = Block(t, j, m, Up(m, q)) /\ Up(m, q) \in At(m)
    BY <2>2, BlockOf
  <2>4. PICK j \in 0 .. chunks[t] - 1, m \in Levels, q \in InChunk :
           b = Block(t, j, m, Up(m, q)) /\ Up(m, q) \in At(m)
    BY <2>3
  <2> DEFINE i == Up(m, q)
  <2>5. i \in At(m) /\ b = Block(t, j, m, i)
    BY <2>4
  <2> HIDE DEF i
  <2>6. FlagOf(b) = flags[t][N(j, m, i)] /\ flags[t][N(j, m, i)].depth = m
        /\ Address(b, m) = Spot(t, j, m, i)
    BY <2>5, BlockIs
  <2>7. m = l
    BY <2>1, <2>6
  <2>8. FreeNode(flags, chunks, t, j, l, i) /\ x = Spot(t, j, l, i)
    BY <2>1, <2>2, <2>5, <2>6, <2>7 DEF FreeNode
  <2>9. QED
    BY <1>1, <2>8, FreeAtIs
<1>3. ASSUME NEW x \in S
      PROVE  x \in at
  <2>1. PICK t, j, i : FreeNode(flags, chunks, t, j, l, i) /\ x = Spot(t, j, l, i)
    BY <1>1, FreeAtIs
  <2>2. t \in Trees /\ j \in 0 .. chunks[t] - 1 /\ i \in At(l) /\ flags[t][N(j, l, i)].free
    BY <2>1 DEF FreeNode
  <2> DEFINE b == Block(t, j, l, i)
  <2>3. /\ b \in Blocks /\ FlagOf(b) = flags[t][N(j, l, i)] /\ flags[t][N(j, l, i)].depth = l
        /\ Address(b, l) = Spot(t, j, l, i)
    BY <2>2, BlockIs
  <2> HIDE DEF b
  <2>4. QED
    BY <2>1, <2>2, <2>3 DEF FreeBlocks
<1>4. QED
  BY <1>2, <1>3

\* The header of a listed block names a free block of that level at that address.
LEMMA FreeHeader ==
  ASSUME Inv, NEW l \in Levels, NEW x \in FreeAt(flags, chunks)[l]
  PROVE  /\ hdr[x].blockID \in FreeBlocks
         /\ Address(hdr[x].blockID, l) = x /\ FlagOf(hdr[x].blockID).depth = l
<1>1. chunks \in [Trees -> ChunkCounts \cup {0}] /\ Named(Heap, chunks) /\ Heap.flags = flags /\ Heap.hdr = hdr
  BY InvIs, Sound
<1>2. PICK t, j, i : FreeNode(flags, chunks, t, j, l, i) /\ x = Spot(t, j, l, i)
  BY <1>1, FreeAtIs
<1>3. t \in Trees /\ j \in 0 .. chunks[t] - 1 /\ i \in At(l) /\ flags[t][N(j, l, i)].free
  BY <1>2 DEF FreeNode
<1> DEFINE b == Block(t, j, l, i)
<1>4. hdr[x].blockID = b
  BY <1>1, <1>2, <1>3 DEF Named
<1>5. /\ b \in Blocks /\ FlagOf(b) = flags[t][N(j, l, i)] /\ flags[t][N(j, l, i)].depth = l
      /\ Address(b, l) = Spot(t, j, l, i)
  BY <1>3, BlockIs
<1> HIDE DEF b
<1>6. QED
  BY <1>2, <1>3, <1>4, <1>5 DEF FreeBlocks

\* The invariant gives the types.
LEMMA InvTypeOK ==
  ASSUME Inv
  PROVE  TypeOK
<1>1. /\ chunks \in [Trees -> ChunkCounts \cup {0}] /\ flags \in [Trees -> [Nodes -> FlagType]]
      /\ head \in [Levels -> Addresses \cup {NULL}] /\ hdr \in [Addresses -> HeaderType]
  BY InvIs, Sound
<1>2. \A a \in Addresses : hdr[a] \in HeaderType
  BY <1>1
<1>3. \A a \in Addresses : /\ hdr[a].prev \in Addresses \cup {NULL}
                           /\ hdr[a].next \in Addresses \cup {NULL}
                           /\ hdr[a].blockID \in (Trees \X Nodes) \cup {NoBlock}
  BY <1>2 DEF HeaderType
<1>4. QED
  BY <1>1, <1>3 DEF TypeOK, FlagType

\* It gives the soundness of the free lists.
LEMMA InvFreeLists ==
  ASSUME Inv
  PROVE  FreeListsSound
<1>1. TypeOK
  BY InvTypeOK
<1>2. ASSUME NEW l \in Levels, NEW at, at = FreeAt(flags, chunks)[l]
      PROVE  /\ head[l] = NULL <=> at = {}
             /\ head[l] # NULL => head[l] \in at /\ hdr[head[l]].prev = NULL
             /\ \A a \in at :
                  /\ hdr[a].blockID \in FreeBlocks
                  /\ Address(hdr[a].blockID, l) = a /\ FlagOf(hdr[a].blockID).depth = l
                  /\ hdr[a].next # NULL => hdr[a].next \in at /\ hdr[hdr[a].next].prev = a
                  /\ hdr[a].prev # NULL => hdr[a].prev \in at /\ hdr[hdr[a].prev].next = a
                  /\ hdr[a].prev = NULL => head[l] = a
             /\ \A ring \in SUBSET at : ring # {} => \E a \in ring : hdr[a].prev \notin ring
  <2>1. Linked(hdr, head[l], at) /\ at \in SUBSET Addresses
    BY <1>2, InvIs, Sound DEF Lists
  <2>2. head[l] = NULL <=> at = {}
    BY <2>1, EmptyList
  <2>3. \A a \in at : /\ hdr[a].blockID \in FreeBlocks
                      /\ Address(hdr[a].blockID, l) = a /\ FlagOf(hdr[a].blockID).depth = l
    BY <1>2, FreeHeader
  <2>4. QED
    BY <2>1, <2>2, <2>3 DEF Linked
<1>3. QED
  BY <1>1, <1>2, FreeSpots DEF FreeListsSound

\* It says that no two buddies are free.
LEMMA InvCoalesced ==
  ASSUME Inv
  PROVE  Coalesced
<1>1. SUFFICES ASSUME NEW b \in FreeBlocks, FlagOf(b).depth > 0, <<b[1], Sibling(b[2])>> \in FreeBlocks
               PROVE  FALSE
  BY DEF Coalesced
<1>2. b \in Blocks /\ FlagOf(b).free /\ FlagOf(<<b[1], Sibling(b[2])>>).free
  BY <1>1 DEF FreeBlocks
<1>3. PICK t \in Trees : \E j \in 0 .. chunks[t] - 1, l \in Levels, q \in InChunk :
           b = Block(t, j, l, Up(l, q)) /\ Up(l, q) \in At(l)
  BY <1>2, BlockOf
<1>4. PICK j \in 0 .. chunks[t] - 1, l \in Levels, q \in InChunk :
           b = Block(t, j, l, Up(l, q)) /\ Up(l, q) \in At(l)
  BY <1>3
<1> DEFINE i == Up(l, q)
<1>5. i \in At(l) /\ b = Block(t, j, l, i) /\ b[1] = t /\ b[2] = N(j, l, i)
  BY <1>4 DEF Block
<1> HIDE DEF i
<1>6. /\ FlagOf(b) = flags[t][N(j, l, i)] /\ flags[t][N(j, l, i)].depth = l /\ j \in Nat
  BY <1>5, BlockIs
<1>7. l \in Levels \ {0} /\ Sibling(N(j, l, i)) = N(j, l, Twin(i))
  BY <1>1, <1>5, <1>6, SiblingIs
<1>8. flags[t][N(j, l, i)].free /\ flags[t][N(j, l, Twin(i))].free
  BY <1>2, <1>5, <1>6, <1>7 DEF FlagOf
<1>9. Merged(flags[t], chunks[t])
  BY InvIs, Sound DEF Tree
<1>10. QED
  BY <1>5, <1>7, <1>8, <1>9 DEF Merged

\* The pages of a node are those it is above.
LEMMA PageOf ==
  ASSUME NEW j \in Nat, NEW l \in Levels, NEW i \in At(l), NEW k \in Nat, NEW q \in InChunk
  PROVE  LET first == j * 2 ^ Depth + i * Width(l)
         IN  k * 2 ^ Depth + q \in first .. first + Width(l) - 1 <=> k = j /\ Up(l, q) = i
<1> DEFINE H == 2 ^ Depth
           w == Width(l)
           p == 2 ^ l
           e == i * w
           x == j * H
           y == k * H
           P == H * k + q \in H * j + e .. H * j + e + w - 1
<1>1. /\ H \in Nat \ {0} /\ w \in Nat \ {0} /\ p \in Nat \ {0} /\ H = p * w
      /\ i \in 0 .. p - 1 /\ q \in 0 .. H - 1
  BY Widths DEF At, InChunk
<1>2. e \in Nat /\ e + w <= H /\ x \in Nat /\ y \in Nat
  BY <1>1
<1>3. ASSUME y + q \in x + e .. x + e + w - 1
      PROVE  k = j
  <2> DEFINE r == y + q - x
  <2> HIDE DEF e, w, H, x, y
  <2>1. r \in 0 .. H - 1 /\ y + q = x + r
    BY <1>1, <1>2, <1>3
  <2> HIDE DEF r
  <2> DEFINE z == y + q
  <2>2. z = H * k + q /\ z = H * j + r
    BY <1>1, <2>1 DEF x, y
  <2>3. z \in Nat
    BY <1>1, <1>2
  <2> HIDE DEF z
  <2>4. H \in Nat \ {0} /\ q \in 0 .. H - 1 /\ r \in 0 .. H - 1 /\ k \in Int /\ j \in Int
    BY <1>1, <2>1
  <2>6. z \div H = k
    BY ONLY <2>2, <2>3, <2>4, Quotient
  <2>7. z \div H = j
    BY ONLY <2>2, <2>3, <2>4, Quotient
  <2>5. QED
    BY <2>6, <2>7
<1>4. q \in e .. e + w - 1 <=> Up(l, q) = i
  <2> DEFINE u == q \div w
             r == q % w
  <2>1. u \in Int /\ r \in 0 .. w - 1 /\ q = w * u + r /\ q \in Nat
    <3> HIDE DEF w
    <3>1. QED
      BY <1>1, Division
  <2>2. ASSUME u = i
        PROVE  q \in e .. e + w - 1
    <3> HIDE DEF w, r, u
    <3>1. w * u = e
      BY <1>1, <2>1, <2>2
    <3>2. QED
      BY <1>1, <1>2, <2>1, <3>1
  <2>3. ASSUME q \in e .. e + w - 1
        PROVE  u = i
    <3> DEFINE s == q - e
    <3> HIDE DEF w, e, u, r
    <3>1. s \in 0 .. w - 1 /\ q = e + s
      BY <1>1, <1>2, <2>1, <2>3
    <3> HIDE DEF s
    <3>2. q = w * i + s /\ i \in Int /\ w \in Nat \ {0} /\ q \in Nat
      BY <1>1, <2>1, <3>1 DEF e
    <3>3. q \div w = i
      BY ONLY <3>1, <3>2, Quotient
    <3>4. QED
      BY <3>3 DEF u
  <2>4. QED
    BY <2>2, <2>3 DEF Up
<1>5. ASSUME k = j
      PROVE  y + q \in x + e .. x + e + w - 1 <=> q \in e .. e + w - 1
  BY <1>1, <1>2, <1>5
<1>6. QED
  BY <1>3, <1>4, <1>5

\* The leaves are the blocks free, owned or kept for the flags.
Partition == FreeBlocks \cup OwnedBlocks \cup {<<t, FlagsNode>> : t \in 0 .. ntrees - 1}

\* A block of the partition is a leaf.
LEMMA LeavesAre ==
  ASSUME Inv, NEW t \in Trees, NEW j \in 0 .. chunks[t] - 1, NEW l \in Levels, NEW i \in At(l)
  PROVE  Block(t, j, l, i) \in Partition <=> Leaf(flags[t], N(j, l, i))
<1> DEFINE b == Block(t, j, l, i)
           n == N(j, l, i)
<1>1. b \in Blocks /\ FlagOf(b) = flags[t][n] /\ b = <<t, n>>
  BY BlockIs DEF Block
<1>2. b \in FreeBlocks <=> flags[t][n].free
  BY <1>1 DEF FreeBlocks
<1>3. b \in OwnedBlocks <=> ~flags[t][n].free /\ ~flags[t][n].inner /\ n # FlagsNode
  BY <1>1 DEF OwnedBlocks
<1>4. b \in {<<u, FlagsNode>> : u \in 0 .. ntrees - 1} <=> n = FlagsNode
  <2>1. t \in 0 .. ntrees - 1
    <3>1. chunks[t] > 0 /\ chunks[t] \in Nat /\ t < ntrees /\ ntrees \in Nat /\ t \in Nat
      <4>1. chunks[t] \in Nat /\ ntrees \in 0 .. MaxTrees /\ (chunks[t] > 0 <=> t < ntrees)
        BY InvIs, Sound
      <4>2. QED
        BY <4>1 DEF Trees
    <3>2. QED
      BY <3>1
  <2>2. QED
    BY <1>1, <2>1
<1>5. n = FlagsNode => ~flags[t][n].free /\ ~flags[t][n].inner
  BY InvIs, Sound DEF Kept, InUseFlag, Flag
<1>6. QED
  BY <1>2, <1>3, <1>4, <1>5 DEF Partition, Leaf

\* The invariant puts every page in exactly one block of the partition.
LEMMA InvPages ==
  ASSUME Inv
  PROVE  PagesPartitioned
<1> DEFINE H == 2 ^ Depth
<1>1. ASSUME NEW t \in 0 .. ntrees - 1, NEW p \in 0 .. chunks[t] * H - 1
      PROVE  Cardinality({b \in Partition : <<t, p>> \in PagesOf(b)}) = 1
  <2>1. t \in Trees /\ chunks[t] \in Nat /\ Covered(flags[t], chunks[t]) /\ H \in Nat \ {0} /\ p \in Nat
    BY InvIs, Constants, SlotsAre, Sound DEF Trees, Tree
  <2> DEFINE j == p \div H
             q == p % H
  <2>2. j \in Int /\ q \in 0 .. H - 1 /\ p = H * j + q
    BY <2>1, Division
  <2>3. j \in 0 .. chunks[t] - 1 /\ q \in InChunk /\ p = j * H + q /\ j \in Nat
    <3> DEFINE c == chunks[t]
    <3>1. p < c * H /\ c \in Nat
      BY <1>1, <2>1
    <3> HIDE DEF c, j, q, H
    <3>2. ~(j <= -1)
      <4>1. SUFFICES ASSUME j <= -1
                     PROVE  FALSE
        OBVIOUS
      <4>2. H * j <= -H
        BY <2>1, <2>2, <4>1
      <4>3. QED
        BY <2>1, <2>2, <4>2
    <3>3. ~(j >= c)
      <4>1. SUFFICES ASSUME j >= c
                     PROVE  FALSE
        OBVIOUS
      <4>2. H * j >= H * c
        BY <2>1, <2>2, <3>1, <4>1
      <4>3. QED
        BY <2>1, <2>2, <3>1, <4>2
    <3>4. H * j = j * H
      BY <2>1, <2>2
    <3>5. j \in 0 .. c - 1 /\ j \in Nat /\ p = j * H + q
      BY <2>2, <3>1, <3>2, <3>3, <3>4
    <3>6. q \in InChunk
      BY <2>2 DEF InChunk, H
    <3>7. QED
      BY <3>5, <3>6 DEF c
  <2> HIDE DEF j, q, H
  <2>4. PICK l \in Levels : \A m \in Levels : Leaf(flags[t], Over(j, m, q)) <=> m = l
    BY <2>1, <2>3 DEF Covered
  <2> DEFINE b0 == Block(t, j, l, Up(l, q))
  <2>5. Up(l, q) \in At(l)
    BY <2>3, UpAt
  <2>6. ASSUME NEW u \in Trees, NEW k \in 0 .. chunks[u] - 1, NEW m \in Levels, NEW i \in At(m)
        PROVE  <<t, p>> \in PagesOf(Block(u, k, m, i)) <=> u = t /\ k = j /\ i = Up(m, q)
    <3> DEFINE b == Block(u, k, m, i)
               first == k * 2 ^ Depth + i * Width(m)
    <3>1. /\ FlagOf(b).depth = m /\ Address(b, m) = <<u, first>> /\ b[1] = u /\ k \in Nat
      BY BlockIs DEF Block, Spot
    <3>2. PagesOf(b) = {u} \X (first .. first + Width(m) - 1)
      BY <3>1 DEF PagesOf, Width
    <3>3. p \in first .. first + Width(m) - 1 <=> j = k /\ Up(m, q) = i
      BY <2>3, <3>1, PageOf DEF H
    <3> HIDE DEF first, b
    <3>4. QED
      BY <3>2, <3>3 DEF b
  <2>7. ASSUME NEW b \in Partition, <<t, p>> \in PagesOf(b)
        PROVE  b = b0
    <3>1. b \in Blocks
      <4>1. CASE b \in FreeBlocks \cup OwnedBlocks
        BY <4>1 DEF FreeBlocks, OwnedBlocks
      <4>2. CASE b \in {<<u, FlagsNode>> : u \in 0 .. ntrees - 1}
        <5>1. PICK u \in 0 .. ntrees - 1 : b = <<u, FlagsNode>>
          BY <4>2
        <5> DEFINE z == 0
        <5>2. u \in Trees /\ z \in 0 .. chunks[u] - 1 /\ z \in At(Depth) /\ Depth \in Levels
          <6>1. u \in Trees /\ u < ntrees
            BY InvIs, Constants DEF Trees
          <6>2. chunks[u] > 0 /\ chunks[u] \in Nat
            BY <6>1, InvIs, Sound
          <6>3. QED
            BY <6>1, <6>2, Zeroth
        <5>3. b = Block(u, z, Depth, z)
          BY <5>1, Zeroth DEF Block
        <5> HIDE DEF z
        <5>4. QED
          BY <5>2, <5>3, BlockIs
      <4>3. QED
        BY <4>1, <4>2 DEF Partition
    <3>2. PICK u \in Trees : \E k \in 0 .. chunks[u] - 1, m \in Levels, r \in InChunk :
             b = Block(u, k, m, Up(m, r)) /\ Up(m, r) \in At(m)
      BY <3>1, BlockOf
    <3>3. PICK k \in 0 .. chunks[u] - 1, m \in Levels, r \in InChunk :
             b = Block(u, k, m, Up(m, r)) /\ Up(m, r) \in At(m)
      BY <3>2
    <3>4. u = t /\ k = j /\ Up(m, r) = Up(m, q)
      BY <2>6, <2>7, <3>3
    <3>5. Leaf(flags[t], Over(j, m, q))
      BY <2>7, <3>3, <3>4, LeavesAre DEF Over
    <3>6. m = l
      BY <2>4, <3>5
    <3>7. QED
      BY <3>3, <3>4, <3>6
  <2>8. b0 \in Partition /\ <<t, p>> \in PagesOf(b0)
    BY <2>1, <2>3, <2>4, <2>5, <2>6, LeavesAre DEF Over
  <2> HIDE DEF b0
  <2>9. {b \in Partition : <<t, p>> \in PagesOf(b)} = {b0}
    BY <2>7, <2>8
  <2>10. QED
    BY <2>9, FS_Singleton
<1>2. QED
  BY <1>1 DEF PagesPartitioned, Partition

\* The types hold in every reachable state.
THEOREM TypeCorrect == Spec => []TypeOK
BY Invariance, InvTypeOK, PTL

\* Every free list is a doubly linked list of exactly the free blocks of its level.
THEOREM FreeLists == Spec => []FreeListsSound
BY Invariance, InvFreeLists, PTL

\* Every page is free, owned once, or the page of flags.
THEOREM EveryPageOnce == Spec => []PagesPartitioned
BY Invariance, InvPages, PTL

\* Two buddies are never both free.
THEOREM BuddiesMerged == Spec => []Coalesced
BY Invariance, InvCoalesced, PTL

(***************************************************************************)
(* Extents.                                                                *)
(***************************************************************************)
\* The pages of node i of level l in chunk j of tree t.
Extent(t, j, l, i) == [tree |-> t, first |-> j * 2 ^ Depth + i * Width(l), size |-> Width(l)]

\* Node n of tree t is in a client's hands.
InUse(FL, t, n) == ~FL[t][n].free /\ ~FL[t][n].inner /\ n # FlagsNode
\* Extent e is that of a node in a client's hands.
Held(FL, C, e) ==
  \E t \in Trees : \E j \in 0 .. C[t] - 1, l \in Levels : \E i \in At(l) :
    e = Extent(t, j, l, i) /\ InUse(FL, t, N(j, l, i))

\* The fields of an extent.
LEMMA ExtentFields ==
  ASSUME NEW t, NEW j \in Nat, NEW l \in Levels, NEW i \in At(l)
  PROVE  /\ Extent(t, j, l, i).tree = t /\ Extent(t, j, l, i).size = Width(l)
         /\ Extent(t, j, l, i).first = j * 2 ^ Depth + i * Width(l)
         /\ Extent(t, j, l, i).first \in Nat /\ Width(l) \in Nat \ {0}
<1> DEFINE H == 2 ^ Depth
           w == Width(l)
           x == j * H
           e == i * w
<1>1. H \in Nat \ {0} /\ w \in Nat \ {0} /\ i \in Nat
  BY Widths DEF At
<1>2. x \in Nat /\ e \in Nat
  BY <1>1
<1> HIDE DEF x, e, w, H
<1>3. x + e \in Nat
  BY <1>2
<1>4. Extent(t, j, l, i) = [tree |-> t, first |-> x + e, size |-> w]
  BY DEF Extent, x, e, w, H
<1>5. QED
  BY <1>1, <1>3, <1>4 DEF x, e, w, H

\* Two nodes have two extents.
LEMMA ExtentOne ==
  ASSUME NEW t, NEW j \in Nat, NEW l \in Levels, NEW i \in At(l),
         NEW u, NEW k \in Nat, NEW m \in Levels, NEW x \in At(m), Extent(t, j, l, i) = Extent(u, k, m, x)
  PROVE  t = u /\ j = k /\ l = m /\ i = x
<1>1. /\ t = u /\ Width(l) = Width(m) /\ Spot(t, j, l, i) = Spot(u, k, m, x)
  BY ExtentFields DEF Spot
<1>2. l = m
  BY <1>1, Widths, Constants, PowersGrow DEF Levels, Width
<1>3. QED
  BY <1>1, <1>2, SpotOne

\* The extent of a block, from its coordinates.
LEMMA ExtentIs ==
  ASSUME NEW t, NEW j \in Nat, NEW l \in Levels, NEW i \in At(l)
  PROVE  /\ ExtentOf(Block(t, j, l, i)) = Extent(t, j, l, i)
         /\ Block(t, j, l, i) # NoBlock
<1> DEFINE b == Block(t, j, l, i)
<1>1. b # NoBlock
  BY DEF NoBlock, Block
<1>2. b[1] = t /\ b[2] = N(j, l, i) /\ Level(b[2]) = l
  BY LevelIs DEF Block
<1>3. Address(b, l) = <<t, j * 2 ^ Depth + i * Width(l)>>
  BY AddressIs DEF Block
<1> HIDE DEF b
<1>4. ExtentOf(b) = [tree |-> t, first |-> j * 2 ^ Depth + i * Width(l), size |-> Width(l)]
  BY <1>1, <1>2, <1>3 DEF ExtentOf, Width
<1>5. QED
  BY <1>1, <1>4 DEF b, Extent

\* The extents that the clients own: the page pool's first variable.
Owned == {ExtentOf(b) : b \in OwnedBlocks}
Owns  == \A e : e \in Owned <=> Held(flags, chunks, e)

\* They are those held by the flags.
LEMMA OwnedIs ==
  ASSUME Inv
  PROVE  Owns
<1>1. ASSUME NEW e, e \in Owned
      PROVE  Held(flags, chunks, e)
  <2>1. PICK b \in OwnedBlocks : e = ExtentOf(b)
    BY <1>1 DEF Owned
  <2>2. b \in Blocks
    BY DEF OwnedBlocks
  <2>3. PICK t \in Trees : \E j \in 0 .. chunks[t] - 1, l \in Levels, q \in InChunk :
           b = Block(t, j, l, Up(l, q)) /\ Up(l, q) \in At(l)
    BY <2>2, BlockOf
  <2>4. PICK j \in 0 .. chunks[t] - 1, l \in Levels, q \in InChunk :
           b = Block(t, j, l, Up(l, q)) /\ Up(l, q) \in At(l)
    BY <2>3
  <2> DEFINE i == Up(l, q)
  <2>5. i \in At(l) /\ b = Block(t, j, l, i)
    BY <2>4
  <2> HIDE DEF i
  <2>6. FlagOf(b) = flags[t][N(j, l, i)] /\ j \in Nat /\ b[2] = N(j, l, i)
    BY <2>5, BlockIs DEF Block
  <2>7. InUse(flags, t, N(j, l, i))
    BY <2>6 DEF OwnedBlocks, InUse
  <2>8. e = Extent(t, j, l, i)
    BY <2>1, <2>5, <2>6, ExtentIs
  <2>9. QED
    BY <2>5, <2>7, <2>8 DEF Held
<1>2. ASSUME NEW e, Held(flags, chunks, e)
      PROVE  e \in Owned
  <2>1. PICK t \in Trees : \E j \in 0 .. chunks[t] - 1, l \in Levels : \E i \in At(l) :
           e = Extent(t, j, l, i) /\ InUse(flags, t, N(j, l, i))
    BY <1>2 DEF Held
  <2>2. PICK j \in 0 .. chunks[t] - 1, l \in Levels : \E i \in At(l) :
           e = Extent(t, j, l, i) /\ InUse(flags, t, N(j, l, i))
    BY <2>1
  <2>3. PICK i \in At(l) : e = Extent(t, j, l, i) /\ InUse(flags, t, N(j, l, i))
    BY <2>2
  <2> DEFINE b == Block(t, j, l, i)
  <2>4. b \in Blocks /\ FlagOf(b) = flags[t][N(j, l, i)] /\ j \in Nat /\ b[2] = N(j, l, i)
    BY BlockIs DEF Block
  <2>5. ExtentOf(b) = e
    BY <2>3, <2>4, ExtentIs
  <2> HIDE DEF b
  <2>6. b \in OwnedBlocks
    BY <2>3, <2>4 DEF OwnedBlocks, InUse
  <2>7. QED
    BY <2>5, <2>6 DEF Owned
<1>3. QED
  BY <1>1, <1>2 DEF Owns

\* And so after a step.
LEMMA OwnedNext == Inv' => Owns'
<1>1. Inv => Owns
  BY OwnedIs
<1>2. QED
  BY <1>1, PTL

\* Two extents overlap when a page is below both nodes.
LEMMA Shared ==
  ASSUME NEW t, NEW j \in Nat, NEW l \in Levels, NEW i \in At(l),
         NEW u, NEW k \in Nat, NEW m \in Levels, NEW x \in At(m)
  PROVE  Pages!Overlap(Extent(t, j, l, i), Extent(u, k, m, x)) <=>
           t = u /\ j = k /\ \E q \in InChunk : Up(l, q) = i /\ Up(m, q) = x
<1> DEFINE H == 2 ^ Depth
           P == Pages!Pages(Extent(t, j, l, i))
           Q == Pages!Pages(Extent(u, k, m, x))
<1>1. H \in Nat \ {0}
  BY SlotsAre
<1>2. /\ P = j * H + i * Width(l) .. j * H + i * Width(l) + Width(l) - 1
      /\ Q = k * H + x * Width(m) .. k * H + x * Width(m) + Width(m) - 1
      /\ P \subseteq Nat
  BY ExtentFields DEF Pages!Pages
<1>3. ASSUME NEW y \in Nat, NEW q \in InChunk
      PROVE  /\ y * H + q \in P <=> y = j /\ Up(l, q) = i
             /\ y * H + q \in Q <=> y = k /\ Up(m, q) = x
  BY <1>2, PageOf
<1>4. Pages!Overlap(Extent(t, j, l, i), Extent(u, k, m, x)) <=> t = u /\ P \cap Q # {}
  BY ExtentFields DEF Pages!Overlap
<1> HIDE DEF P, Q
<1>5. ASSUME NEW p \in P
      PROVE  \E y \in Nat, q \in InChunk : p = y * H + q
  <2> DEFINE y == p \div H
             q == p % H
  <2>1. p \in Nat
    BY <1>2, <1>5
  <2>2. y \in Int /\ q \in 0 .. H - 1 /\ p = H * y + q
    BY <1>1, <2>1, Division
  <2>3. y \in Nat
    <3> HIDE DEF y, q, H
    <3>1. SUFFICES ASSUME y <= -1
                   PROVE  FALSE
      BY <2>2
    <3>2. H * y <= -H
      BY <1>1, <2>2, <3>1
    <3>3. QED
      BY <1>1, <2>1, <2>2, <3>2
  <2>4. H * y = y * H
    BY <1>1, <2>2
  <2>5. q \in InChunk
    BY <2>2 DEF InChunk
  <2> HIDE DEF y, q, H
  <2>6. p = y * H + q
    BY <2>2, <2>4
  <2>7. QED
    BY <2>3, <2>5, <2>6
<1>6. ASSUME P \cap Q # {}
      PROVE  j = k /\ \E q \in InChunk : Up(l, q) = i /\ Up(m, q) = x
  BY <1>3, <1>5, <1>6
<1>7. ASSUME j = k, NEW q \in InChunk, Up(l, q) = i, Up(m, q) = x
      PROVE  P \cap Q # {}
  BY <1>3, <1>7
<1>8. QED
  BY <1>4, <1>6, <1>7

\* The aligned extents of a size but the first of each tree are its nodes of a level but
\* the one above the page of flags.
LEMMA Aligned ==
  ASSUME NEW c \in Nat, NEW d \in Levels
  PROVE  /\ (c * 2 ^ Depth) \div Width(d) = c * 2 ^ d
         /\ \A j \in Nat, i \in At(d) : /\ j * 2 ^ Depth + i * Width(d) = (j * 2 ^ d + i) * Width(d)
                                        /\ j < c => j * 2 ^ d + i \in 0 .. c * 2 ^ d - 1
                                        /\ j * 2 ^ d + i = 0 <=> j = 0 /\ i = 0
         /\ \A k \in 0 .. c * 2 ^ d - 1 : \E j \in 0 .. c - 1, i \in At(d) : k = j * 2 ^ d + i
<1> DEFINE H == 2 ^ Depth
           w == Width(d)
           p == 2 ^ d
<1>1. H \in Nat \ {0} /\ w \in Nat \ {0} /\ p \in Nat \ {0} /\ H = p * w
  BY Widths
<1>2. (c * H) \div w = c * p
  <2> HIDE DEF H, w, p
  <2> DEFINE z == 0
             x == c * p
             h == c * H
  <2>1. x \in Int /\ z \in 0 .. w - 1 /\ h \in Nat
    BY <1>1
  <2>2. h = w * x + z
    BY <1>1
  <2> HIDE DEF z, x, h
  <2>3. h \div w = x
    BY <1>1, <2>1, <2>2, Quotient
  <2>4. QED
    BY <2>3 DEF h, x
<1>3. ASSUME NEW j \in Nat, NEW i \in At(d)
      PROVE  /\ j * H + i * w = (j * p + i) * w
             /\ j < c => j * p + i \in 0 .. c * p - 1
             /\ j * p + i = 0 <=> j = 0 /\ i = 0
  <2>1. i \in 0 .. p - 1
    BY DEF At
  <2> HIDE DEF H, w, p
  <2>2. j * H + i * w = (j * p + i) * w
    <3>1. j * (p * w) = (j * p) * w
      BY <1>1
    <3> DEFINE x == j * p
    <3>2. x \in Nat /\ i \in Nat
      BY <1>1, <2>1
    <3>3. (x + i) * w = x * w + i * w
      BY <1>1, <3>2
    <3>4. QED
      BY <1>1, <3>1, <3>3
  <2>3. ASSUME j < c
        PROVE  j * p + i \in 0 .. c * p - 1
    <3>1. (j + 1) * p <= c * p /\ (j + 1) * p = j * p + p /\ j * p \in Nat /\ c * p \in Nat
      BY <1>1, <2>3
    <3> DEFINE x == j * p
               y == c * p
    <3>2. x \in Nat /\ y \in Nat /\ x + p <= y
      BY <3>1
    <3> HIDE DEF x, y
    <3>3. x + i \in 0 .. y - 1
      BY <1>1, <2>1, <3>2
    <3>4. QED
      BY <3>3 DEF x, y
  <2>4. j * p + i = 0 <=> j = 0 /\ i = 0
    <3>1. j * p \in Nat /\ (j * p = 0 <=> j = 0)
      BY <1>1
    <3> DEFINE x == j * p
    <3>2. x \in Nat /\ (x = 0 <=> j = 0)
      BY <3>1
    <3> HIDE DEF x
    <3>3. x + i = 0 <=> j = 0 /\ i = 0
      BY <1>1, <2>1, <3>2
    <3>4. QED
      BY <3>3 DEF x
  <2>5. QED
    BY <2>2, <2>3, <2>4
<1>4. ASSUME NEW k \in 0 .. c * p - 1
      PROVE  \E j \in 0 .. c - 1, i \in At(d) : k = j * p + i
  <2> DEFINE j == k \div p
             i == k % p
             y == c * p
  <2>1. y \in Nat
    BY <1>1
  <2>2. k \in Nat /\ k < y
    BY <2>1 DEF y
  <2>3. j \in Int /\ i \in 0 .. p - 1 /\ k = p * j + i
    BY <1>1, <2>2, Division
  <2>4. i \in At(d)
    BY <2>3 DEF At
  <2> HIDE DEF j, i, p
  <2>5. ~(j <= -1)
    <3>1. SUFFICES ASSUME j <= -1
                   PROVE  FALSE
      OBVIOUS
    <3>2. p * j <= -p
      BY <1>1, <2>3, <3>1
    <3>3. QED
      BY <1>1, <2>2, <2>3, <3>2
  <2>6. ~(j >= c)
    <3>1. SUFFICES ASSUME j >= c
                   PROVE  FALSE
      OBVIOUS
    <3>2. p * j >= p * c /\ p * c = y
      BY <1>1, <2>3, <3>1
    <3>3. QED
      BY <1>1, <2>1, <2>2, <2>3, <3>2
  <2>7. p * j = j * p /\ j \in 0 .. c - 1
    BY <1>1, <2>3, <2>5, <2>6
  <2>8. k = j * p + i
    BY <2>3, <2>7
  <2>9. QED
    BY <2>4, <2>7, <2>8
<1>5. QED
  BY <1>2, <1>3, <1>4

\* What the page pool could grant of a size: the aligned extents, but for the page of flags, that
\* overlap none in use.
LEMMA AvailableIs ==
  ASSUME Inv, NEW C \in [Trees -> ChunkCounts \cup {0}], NEW d \in Levels, NEW e
  PROVE  e \in Pages!Available(C, Width(d)) <=>
           /\ \E t \in Trees : \E j \in 0 .. C[t] - 1, i \in At(d) :
                e = Extent(t, j, d, i) /\ ~(j = 0 /\ i = 0)
           /\ \A f : Held(flags, chunks, f) => ~Pages!Overlap(e, f)
<1> DEFINE w == Width(d)
           p == 2 ^ d
           Some == \E t \in Trees : \E k \in 1 .. (C[t] * 2 ^ Depth) \div w - 1 :
                     e = [tree |-> t, first |-> k * w, size |-> w]
<1>1. \A t \in Trees : C[t] \in Nat
  BY Chunks
<1>2. e \in Pages!Available(C, w) <=> Some /\ \A f \in Owned : ~Pages!Overlap(e, f)
  <2>1. Pages!Trees = Trees
    BY DEF Pages!Trees, Trees
  <2>2. e \in UNION {[tree : {t}, first : {k * w : k \in 1 .. (C[t] * 2 ^ Depth) \div w - 1},
                      size : {w}] : t \in Trees} <=> Some
    <3> HIDE DEF w
    <3> DEFINE K(t) == 1 .. (C[t] * 2 ^ Depth) \div w - 1
    <3> HIDE DEF K
    <3>1. ASSUME NEW t \in Trees
          PROVE  e \in [tree : {t}, first : {k * w : k \in K(t)}, size : {w}] <=>
                   \E k \in K(t) : e = [tree |-> t, first |-> k * w, size |-> w]
      OBVIOUS
    <3>2. QED
      BY <3>1 DEF K
  <2>3. QED
    BY <2>1, <2>2 DEF Pages!Available, Owned
<1>3. (\A f \in Owned : ~Pages!Overlap(e, f)) <=> \A f : Held(flags, chunks, f) => ~Pages!Overlap(e, f)
  BY OwnedIs DEF Owns
<1>4. Some <=> \E t \in Trees : \E j \in 0 .. C[t] - 1, i \in At(d) :
                 e = Extent(t, j, d, i) /\ ~(j = 0 /\ i = 0)
  <2>1. ASSUME NEW t \in Trees, NEW k \in 1 .. (C[t] * 2 ^ Depth) \div w - 1,
               e = [tree |-> t, first |-> k * w, size |-> w]
        PROVE  \E j \in 0 .. C[t] - 1, i \in At(d) : e = Extent(t, j, d, i) /\ ~(j = 0 /\ i = 0)
    <3>1. (C[t] * 2 ^ Depth) \div w = C[t] * p
      BY <1>1, Aligned
    <3>2. k \in 1 .. C[t] * p - 1
      BY <2>1, <3>1
    <3>3. k \in 0 .. C[t] * p - 1 /\ k # 0
      <4> DEFINE y == C[t] * p
      <4>1. k \in 1 .. y - 1
        BY <3>2
      <4> HIDE DEF y
      <4>2. k \in 0 .. y - 1 /\ k # 0
        BY <4>1
      <4>3. QED
        BY <4>2 DEF y
    <3>4. PICK j \in 0 .. C[t] - 1, i \in At(d) : k = j * p + i
      <4> DEFINE c == C[t]
      <4>1. c \in Nat /\ k \in 0 .. c * 2 ^ d - 1
        BY <1>1, <3>3
      <4> HIDE DEF c
      <4>2. \E j \in 0 .. c - 1, i \in At(d) : k = j * 2 ^ d + i
        BY <4>1, Aligned
      <4>3. QED
        BY <4>2 DEF c
    <3>5. j \in Nat
      BY <1>1
    <3>6. j * 2 ^ Depth + i * w = (j * p + i) * w /\ (j * p + i = 0 <=> j = 0 /\ i = 0)
      BY <1>1, <3>5, Aligned
    <3>7. e = Extent(t, j, d, i)
      BY <2>1, <3>4, <3>6 DEF Extent
    <3>8. QED
      BY <3>3, <3>4, <3>6, <3>7
  <2>2. ASSUME NEW t \in Trees, NEW j \in 0 .. C[t] - 1, NEW i \in At(d),
               e = Extent(t, j, d, i), ~(j = 0 /\ i = 0)
        PROVE  Some
    <3>1. j \in Nat /\ j < C[t]
      BY <1>1
    <3> DEFINE k == j * p + i
               y == C[t] * p
    <3>2. /\ j * 2 ^ Depth + i * w = k * w /\ k \in 0 .. y - 1 /\ k # 0
          /\ (C[t] * 2 ^ Depth) \div w = y
      BY <1>1, <2>2, <3>1, Aligned
    <3>3. e = [tree |-> t, first |-> k * w, size |-> w]
      BY <2>2, <3>2 DEF Extent
    <3> HIDE DEF k, y, w
    <3>4. k \in 1 .. y - 1
      BY <3>2
    <3>5. QED
      BY <3>2, <3>3, <3>4
  <2>3. QED
    BY <2>1, <2>2
<1>5. QED
  BY <1>2, <1>3, <1>4

(***************************************************************************)
(* What the operations do to the extents in use.                           *)
(***************************************************************************)
\* Extents that overlap are of one chunk, and over a common page.
LEMMA Meet ==
  ASSUME NEW t \in Trees, NEW j \in Nat, NEW l \in Levels, NEW i \in At(l),
         NEW u \in Trees, NEW k \in Nat, NEW m \in Levels, NEW x \in At(m),
         Pages!Overlap(Extent(t, j, l, i), Extent(u, k, m, x))
  PROVE  t = u /\ j = k /\ \E q \in InChunk : Up(l, q) = i /\ Up(m, q) = x
BY Shared

\* A path from a leaf down holds no other leaf.
LEMMA PathLeaf ==
  ASSUME NEW c \in 0 .. MaxChunks, NEW j \in 0 .. c - 1, NEW q \in InChunk,
         NEW a \in Levels, NEW d \in Levels, a <= d, NEW F, Covered(F, c), Leaf(F, Over(j, a, q)),
         NEW k \in Nat, NEW m \in Levels, NEW x \in At(m), N(k, m, x) \in Path(j, q, a, d),
         Leaf(F, N(k, m, x))
  PROVE  k = j /\ m = a /\ x = Up(a, q)
<1> DEFINE r == x * Width(m)
<1>1. r \in InChunk /\ Up(m, r) = x
  BY FirstPage
<1> HIDE DEF r
<1>2. j \in Nat /\ Over(k, m, r) = N(k, m, x)
  BY <1>1, Constants DEF Over
<1>3. k = j /\ Up(a, r) = Up(a, q)
  BY <1>1, <1>2, PathBelow
<1>4. Leaf(F, Over(j, a, r)) /\ Leaf(F, Over(j, m, r))
  BY <1>2, <1>3 DEF Over
<1>5. m = a
  BY <1>1, <1>4, OneLeaf
<1>6. QED
  BY <1>1, <1>3, <1>5

\* A free leaf is above neither the page of flags nor any page in use.
LEMMA Grantable ==
  ASSUME NEW FL, NEW C, Forest(FL, C), Kept(FL, C), NEW t \in Trees, NEW j \in 0 .. C[t] - 1,
         NEW q \in InChunk, NEW a \in Levels, NEW d \in Levels, a <= d, FL[t][Over(j, a, q)].free
  PROVE  /\ ~(j = 0 /\ Up(d, q) = 0) /\ Over(j, d, q) # FlagsNode
         /\ \A f : Held(FL, C, f) => ~Pages!Overlap(Extent(t, j, d, Up(d, q)), f)
<1>1. /\ C \in [Trees -> ChunkCounts \cup {0}] /\ Tree(FL[t], C[t]) /\ C[t] \in 0 .. MaxChunks
      /\ C[t] \in Nat /\ j \in Nat /\ C[t] > 0
  BY Chunks DEF Forest
<1>2. FL[t][FlagsNode] = InUseFlag(Depth)
  BY <1>1 DEF Kept
<1>3. /\ FlagsNode = Over(0, Depth, 0) /\ ~FL[t][FlagsNode].free
      /\ \A l \in Levels : Leaf(FL[t], Over(0, l, 0)) => l = Depth
  BY <1>1, <1>2, FlagsPage
<1>4. a \in Nat /\ a \in 0 .. d /\ 0 \in InChunk /\ Depth \in Levels /\ \A l \in Levels : Up(l, 0) = 0
  BY Constants, Zeroth DEF Levels
<1>5. ~(j = 0 /\ Up(d, q) = 0)
  <2>1. SUFFICES ASSUME j = 0, Up(d, q) = 0
                 PROVE  FALSE
    OBVIOUS
  <2> DEFINE z == 0
  <2>2. z \in InChunk /\ Up(d, z) = Up(d, q)
    BY <1>4, <2>1
  <2> HIDE DEF z
  <2>3. Up(a, z) = Up(a, q)
    BY <1>4, <2>2, SameAbove
  <2>4. Over(0, a, 0) = Over(j, a, q)
    BY <2>1, <2>3 DEF Over, z
  <2>5. a = Depth
    BY <1>3, <2>4 DEF Leaf
  <2>6. QED
    BY <1>3, <2>4, <2>5
<1>6. Over(j, d, q) # FlagsNode
  <2>1. SUFFICES ASSUME Over(j, d, q) = FlagsNode
                 PROVE  FALSE
    OBVIOUS
  <2> DEFINE z == 0
  <2>2. Over(j, d, q) = N(z, Depth, z) /\ z \in At(Depth) /\ z \in Nat /\ Depth \in Levels
    BY <2>1, Zeroth
  <2> HIDE DEF z
  <2>3. j = z /\ Up(d, q) = z
    BY <1>1, <2>2, OverIs
  <2>4. QED
    BY <1>5, <2>3 DEF z
<1>7. ASSUME NEW f, Held(FL, C, f), Pages!Overlap(Extent(t, j, d, Up(d, q)), f)
      PROVE  FALSE
  <2>1. PICK u \in Trees : \E k \in 0 .. C[u] - 1, m \in Levels : \E x \in At(m) :
           f = Extent(u, k, m, x) /\ InUse(FL, u, N(k, m, x))
    BY <1>7 DEF Held
  <2>2. PICK k \in 0 .. C[u] - 1, m \in Levels : \E x \in At(m) :
           f = Extent(u, k, m, x) /\ InUse(FL, u, N(k, m, x))
    BY <2>1
  <2>3. PICK x \in At(m) : f = Extent(u, k, m, x) /\ InUse(FL, u, N(k, m, x))
    BY <2>2
  <2>4. k \in Nat
    BY <1>1, Chunks
  <2> DEFINE i == Up(d, q)
  <2>5. i \in At(d)
    BY UpAt
  <2> HIDE DEF i
  <2>6. Pages!Overlap(Extent(t, j, d, i), Extent(u, k, m, x))
    BY <1>7, <2>3 DEF i
  <2>7. t = u /\ j = k /\ \E r \in InChunk : Up(d, r) = i /\ Up(m, r) = x
    <3>1. /\ j \in Nat /\ k \in Nat /\ d \in Levels /\ m \in Levels /\ x \in At(m)
          /\ t \in Trees /\ u \in Trees
      BY <1>1, <2>4
    <3>2. QED
      BY ONLY <2>5, <2>6, <3>1, Meet
  <2>8. PICK r \in InChunk : Up(d, r) = i /\ Up(m, r) = x
    BY <2>7
  <2>9. Up(a, r) = Up(a, q)
    BY <1>4, <2>8, SameAbove DEF i
  <2>10. FL[t][Over(j, a, r)].free /\ Leaf(FL[t], Over(j, a, r))
    BY <2>9 DEF Over, Leaf
  <2>11. InUse(FL, t, Over(j, m, r)) /\ Leaf(FL[t], Over(j, m, r))
    BY <2>3, <2>7, <2>8 DEF Over, InUse, Leaf
  <2>12. m = a
    BY <1>1, <2>10, <2>11, OneLeaf DEF Tree
  <2>13. QED
    BY <2>10, <2>11, <2>12 DEF InUse
<1>8. QED
  BY <1>5, <1>6, <1>7

\* When the nodes in use change in one node only, the extents do in one only.
LEMMA OneMore ==
  ASSUME NEW FL, NEW GL, NEW C \in [Trees -> ChunkCounts \cup {0}], NEW t \in Trees,
         NEW j \in 0 .. C[t] - 1, NEW d \in Levels, NEW i \in At(d),
         \A u \in Trees : \A k \in 0 .. C[u] - 1, m \in Levels : \A x \in At(m) :
           InUse(GL, u, N(k, m, x)) <=>
             InUse(FL, u, N(k, m, x)) \/ (u = t /\ k = j /\ m = d /\ x = i)
  PROVE  \A e : Held(GL, C, e) <=> Held(FL, C, e) \/ e = Extent(t, j, d, i)
<1>1. ASSUME NEW e, Held(GL, C, e)
      PROVE  Held(FL, C, e) \/ e = Extent(t, j, d, i)
  BY <1>1 DEF Held
<1>2. ASSUME NEW e, Held(FL, C, e)
      PROVE  Held(GL, C, e)
  BY <1>2 DEF Held
<1>3. Held(GL, C, Extent(t, j, d, i))
  BY DEF Held
<1>4. QED
  BY <1>1, <1>2, <1>3

\* The same, when one node is given back.
LEMMA OneLess ==
  ASSUME NEW FL, NEW GL, NEW C \in [Trees -> ChunkCounts \cup {0}], NEW t \in Trees,
         NEW j \in 0 .. C[t] - 1, NEW d \in Levels, NEW i \in At(d),
         InUse(FL, t, N(j, d, i)),
         \A u \in Trees : \A k \in 0 .. C[u] - 1, m \in Levels : \A x \in At(m) :
           InUse(GL, u, N(k, m, x)) <=>
             InUse(FL, u, N(k, m, x)) /\ ~(u = t /\ k = j /\ m = d /\ x = i)
  PROVE  /\ \A e : Held(GL, C, e) <=> Held(FL, C, e) /\ e # Extent(t, j, d, i)
         /\ Held(FL, C, Extent(t, j, d, i))
<1>1. \A u \in Trees : C[u] \in Nat
  BY Chunks
<1>2. ASSUME NEW e, Held(GL, C, e)
      PROVE  Held(FL, C, e) /\ e # Extent(t, j, d, i)
  BY <1>1, <1>2, ExtentOne DEF Held
<1>3. ASSUME NEW e, Held(FL, C, e), e # Extent(t, j, d, i)
      PROVE  Held(GL, C, e)
  BY <1>3 DEF Held
<1>4. Held(FL, C, Extent(t, j, d, i))
  BY DEF Held
<1>5. QED
  BY <1>2, <1>3, <1>4

\* A node on a path is one of those above the page, or a twin of one of them.
LEMMA PathFlags ==
  ASSUME NEW j \in Nat, NEW q \in InChunk, NEW a \in Levels, NEW d \in Levels, a <= d,
         NEW k \in Nat, NEW m \in Levels, NEW x \in At(m), N(k, m, x) \in Path(j, q, a, d)
  PROVE  \/ N(k, m, x) = Over(j, m, q) /\ k = j /\ m \in a .. d /\ x = Up(m, q)
         \/ N(k, m, x) = N(j, m, Twin(Up(m, q))) /\ k = j /\ m \in a + 1 .. d /\ x = Twin(Up(m, q))
<1>1. k = j /\ m \in a .. d /\ (x = Up(m, q) \/ (m > a /\ x = Twin(Up(m, q))))
  BY OnPath
<1>2. a \in Nat /\ d \in Nat /\ m \in Nat
  BY Constants DEF Levels
<1>3. CASE x = Up(m, q)
  BY <1>1, <1>3 DEF Over
<1>4. CASE m > a /\ x = Twin(Up(m, q))
  BY <1>1, <1>2, <1>4
<1>5. QED
  BY <1>1, <1>3, <1>4

\* A division adds the extent of the block it ends at.
LEMMA HeldDivided ==
  ASSUME NEW FL, NEW GL, NEW C, Forest(FL, C), Kept(FL, C), NEW t \in Trees, NEW j \in 0 .. C[t] - 1,
         NEW q \in InChunk, NEW a \in Levels, NEW d \in Levels, a <= d, FL[t][Over(j, a, q)].free,
         Divided(GL[t], FL[t], j, q, a, d), \A u \in Trees \ {t} : GL[u] = FL[u]
  PROVE  \A e : Held(GL, C, e) <=> Held(FL, C, e) \/ e = Extent(t, j, d, Up(d, q))
<1> DEFINE i == Up(d, q)
           F == FL[t]
           G == GL[t]
<1>1. /\ C \in [Trees -> ChunkCounts \cup {0}] /\ Covered(F, C[t]) /\ C[t] \in 0 .. MaxChunks
      /\ \A u \in Trees : C[u] \in 0 .. MaxChunks /\ C[u] \in Nat
  BY Chunks DEF Forest, Tree
<1>2. j \in Nat /\ i \in At(d) /\ Over(j, d, q) = N(j, d, i)
  BY <1>1, UpAt DEF Over
<1>3. Over(j, d, q) # FlagsNode
  BY Grantable
<1>4. Leaf(F, Over(j, a, q))
  BY DEF Leaf
<1>10. /\ \A n \in Nodes \ Path(j, q, a, d) : G[n] = F[n]
       /\ \A m \in a .. d - 1 : G[Over(j, m, q)] = Flag(m, FALSE, TRUE)
       /\ G[Over(j, d, q)] = InUseFlag(d)
       /\ \A m \in a + 1 .. d : G[N(j, m, Twin(Up(m, q)))] = Flag(m, TRUE, FALSE)
  BY DEF Divided
<1>11. a \in Nat /\ d \in Nat
  BY Constants DEF Levels
<1>12. Over(j, d, q) \in Path(j, q, a, d)
  BY <1>11 DEF Path
<1> HIDE DEF F, G
<1>5. ASSUME NEW k \in 0 .. C[t] - 1, NEW m \in Levels, NEW x \in At(m)
      PROVE  InUse(GL, t, N(k, m, x)) <=> InUse(FL, t, N(k, m, x)) \/ (k = j /\ m = d /\ x = i)
  <2>1. k \in Nat /\ N(k, m, x) \in Nodes
    BY <1>1, InNodes
  <2>2. CASE N(k, m, x) \notin Path(j, q, a, d)
    BY <1>2, <1>10, <1>12, <2>1, <2>2 DEF InUse, F, G
  <2>3. CASE N(k, m, x) \in Path(j, q, a, d)
    <3>1. ~InUse(FL, t, N(k, m, x))
      <4>1. SUFFICES ASSUME InUse(FL, t, N(k, m, x))
                     PROVE  FALSE
        OBVIOUS
      <4>2. Leaf(F, N(k, m, x))
        BY <4>1 DEF InUse, Leaf, F
      <4>3. k = j /\ m = a /\ x = Up(a, q)
        BY <1>1, <1>4, <2>1, <2>3, <4>2, PathLeaf
      <4>4. N(k, m, x) = Over(j, a, q)
        BY <4>3 DEF Over
      <4>5. QED
        BY <4>1, <4>4 DEF InUse
    <3>2. CASE N(k, m, x) = Over(j, m, q) /\ k = j /\ m \in a .. d /\ x = Up(m, q)
      <4>1. CASE m = d
        BY <1>3, <1>10, <3>2, <4>1 DEF InUse, InUseFlag, Flag, G
      <4>2. CASE m # d
        <5>1. m \in a .. d - 1
          BY <1>11, <3>2, <4>2
        <5>2. G[N(k, m, x)] = Flag(m, FALSE, TRUE)
          BY <1>10, <3>2, <5>1
        <5>3. ~InUse(GL, t, N(k, m, x))
          BY <5>2 DEF InUse, Flag, G
        <5>4. QED
          BY <3>1, <4>2, <5>3
      <4>3. QED
        BY <4>1, <4>2
    <3>3. CASE N(k, m, x) = N(j, m, Twin(Up(m, q))) /\ k = j /\ m \in a + 1 .. d /\ x = Twin(Up(m, q))
      <4>1. G[N(k, m, x)] = Flag(m, TRUE, FALSE)
        BY <1>10, <3>3
      <4>2. ~InUse(GL, t, N(k, m, x))
        BY <4>1 DEF InUse, Flag, G
      <4>3. ~(m = d /\ x = i)
        <5>1. SUFFICES ASSUME m = d, x = i
                       PROVE  FALSE
          OBVIOUS
        <5>2. d \in Levels \ {0}
          BY <1>11, <3>3, <5>1
        <5>3. Twin(i) # i
          BY <1>2, <5>2, Twins
        <5>4. QED
          BY <3>3, <5>1, <5>3
      <4>4. QED
        BY <3>1, <4>2, <4>3
    <3>4. QED
      BY <1>2, <2>1, <2>3, <3>2, <3>3, PathFlags
  <2>4. QED
    BY <2>2, <2>3
<1>6. ASSUME NEW u \in Trees, NEW k \in 0 .. C[u] - 1, NEW m \in Levels, NEW x \in At(m)
      PROVE  InUse(GL, u, N(k, m, x)) <=>
               InUse(FL, u, N(k, m, x)) \/ (u = t /\ k = j /\ m = d /\ x = i)
  BY <1>5 DEF InUse
<1> HIDE DEF i
<1>7. \A e : Held(GL, C, e) <=> Held(FL, C, e) \/ e = Extent(t, j, d, i)
  <2>1. C \in [Trees -> ChunkCounts \cup {0}] /\ i \in At(d)
    BY <1>1, <1>2
  <2>2. \A u \in Trees : \A k \in 0 .. C[u] - 1, m \in Levels : \A x \in At(m) :
           InUse(GL, u, N(k, m, x)) <=>
             InUse(FL, u, N(k, m, x)) \/ (u = t /\ k = j /\ m = d /\ x = i)
    BY <1>6
  <2>3. QED
    BY ONLY <2>1, <2>2, OneMore
<1>8. QED
  BY <1>7 DEF i

\* A coalescing takes away the extent of the block it starts from.
LEMMA HeldCoalesced ==
  ASSUME NEW FL, NEW GL, NEW C, Forest(FL, C), NEW t \in Trees, NEW j \in 0 .. C[t] - 1,
         NEW q \in InChunk, NEW a \in Levels, NEW d \in Levels, a <= d,
         InUse(FL, t, Over(j, d, q)), \A m \in a + 1 .. d : FL[t][N(j, m, Twin(Up(m, q)))].free,
         Coalescing(GL[t], FL[t], j, q, a, d), \A u \in Trees \ {t} : GL[u] = FL[u]
  PROVE  /\ \A e : Held(GL, C, e) <=> Held(FL, C, e) /\ e # Extent(t, j, d, Up(d, q))
         /\ Held(FL, C, Extent(t, j, d, Up(d, q)))
<1> DEFINE i == Up(d, q)
           F == FL[t]
           G == GL[t]
<1>1. /\ C \in [Trees -> ChunkCounts \cup {0}] /\ Covered(F, C[t]) /\ C[t] \in 0 .. MaxChunks
      /\ \A u \in Trees : C[u] \in 0 .. MaxChunks /\ C[u] \in Nat
      /\ F \in [Nodes -> FlagType]
  BY Chunks DEF Forest, Tree
<1>2. j \in Nat /\ i \in At(d) /\ Over(j, d, q) = N(j, d, i)
  BY <1>1, UpAt DEF Over
<1>4. Leaf(F, Over(j, d, q)) /\ ~F[Over(j, d, q)].free
  BY DEF Leaf, InUse
<1>10. /\ \A n \in Nodes \ Path(j, q, a, d) : G[n] = F[n]
       /\ \A m \in a + 1 .. d : /\ G[Over(j, m, q)] = Flag(m, FALSE, TRUE)
                                /\ G[N(j, m, Twin(Up(m, q)))] = Flag(m, FALSE, TRUE)
       /\ G[Over(j, a, q)] = [F[Over(j, a, q)] EXCEPT !.free = TRUE]
       /\ \A m \in a + 1 .. d : F[N(j, m, Twin(Up(m, q)))].free
  BY DEF Coalescing
<1>11. a \in Nat /\ d \in Nat
  BY Constants DEF Levels
<1>12. Over(j, d, q) \in Path(j, q, a, d)
  BY <1>11 DEF Path
<1>13. G[Over(j, a, q)].free
  BY <1>1, <1>10, UpAt, InNodes DEF Over, FlagType
<1>14. InUse(FL, t, N(j, d, i))
  BY <1>2
<1> HIDE DEF F, G
<1>5. ASSUME NEW k \in 0 .. C[t] - 1, NEW m \in Levels, NEW x \in At(m)
      PROVE  InUse(GL, t, N(k, m, x)) <=> InUse(FL, t, N(k, m, x)) /\ ~(k = j /\ m = d /\ x = i)
  <2>1. k \in Nat /\ N(k, m, x) \in Nodes
    BY <1>1, InNodes
  <2>2. CASE N(k, m, x) \notin Path(j, q, a, d)
    BY <1>2, <1>10, <1>12, <2>1, <2>2 DEF InUse, F, G
  <2>3. CASE N(k, m, x) = Over(j, m, q) /\ k = j /\ m \in a .. d /\ x = Up(m, q)
    <3>1. ~InUse(GL, t, N(k, m, x))
      <4>1. CASE m = a
        BY <1>13, <2>3, <4>1 DEF InUse, G
      <4>2. CASE m # a
        <5>1. m \in a + 1 .. d
          BY <1>11, <2>3, <4>2
        <5>2. G[N(k, m, x)] = Flag(m, FALSE, TRUE)
          BY <1>10, <2>3, <5>1
        <5>3. QED
          BY <5>2 DEF InUse, Flag, G
      <4>3. QED
        BY <4>1, <4>2
    <3>2. ASSUME InUse(FL, t, N(k, m, x))
          PROVE  m = d
      BY <1>1, <1>4, <2>3, <3>2, OneLeaf DEF InUse, Leaf, F
    <3>3. QED
      BY <2>3, <3>1, <3>2
  <2>4. CASE N(k, m, x) = N(j, m, Twin(Up(m, q))) /\ k = j /\ m \in a + 1 .. d /\ x = Twin(Up(m, q))
    <3>1. G[N(k, m, x)] = Flag(m, FALSE, TRUE) /\ F[N(k, m, x)].free
      BY <1>10, <2>4
    <3>2. ~InUse(GL, t, N(k, m, x)) /\ ~InUse(FL, t, N(k, m, x))
      BY <3>1 DEF InUse, Flag, F, G
    <3>3. QED
      BY <3>2
  <2>5. QED
    BY <1>2, <2>1, <2>2, <2>3, <2>4, PathFlags
<1>6. ASSUME NEW u \in Trees, NEW k \in 0 .. C[u] - 1, NEW m \in Levels, NEW x \in At(m)
      PROVE  InUse(GL, u, N(k, m, x)) <=>
               InUse(FL, u, N(k, m, x)) /\ ~(u = t /\ k = j /\ m = d /\ x = i)
  BY <1>5 DEF InUse
<1> HIDE DEF i
<1>7. /\ \A e : Held(GL, C, e) <=> Held(FL, C, e) /\ e # Extent(t, j, d, i)
      /\ Held(FL, C, Extent(t, j, d, i))
  BY <1>1, <1>2, <1>6, <1>14, OneLess
<1>8. QED
  BY <1>7 DEF i

\* A new tree has nothing in use but its page of flags.
LEMMA HeldFresh ==
  ASSUME NEW FL, NEW GL, NEW C \in [Trees -> ChunkCounts \cup {0}], NEW t \in Trees, C[t] = 0,
         NEW c \in ChunkCounts, Divided(GL[t], Fresh(c), 0, 0, 0, Depth),
         \A u \in Trees \ {t} : GL[u] = FL[u]
  PROVE  \A e : Held(GL, [C EXCEPT ![t] = c], e) <=> Held(FL, C, e)
<1> DEFINE D == [C EXCEPT ![t] = c]
           F == Fresh(c)
           G == GL[t]
           z == 0
<1>1. /\ D[t] = c /\ \A u \in Trees \ {t} : D[u] = C[u]
      /\ c \in 0 .. MaxChunks /\ c \in Nat /\ z \in 0 .. c - 1
  BY Constants
<1>2. /\ Covered(F, c) /\ \A j \in 0 .. c - 1 : F[N(j, z, z)].free
      /\ z \in Levels /\ z \in Nat /\ z \in InChunk /\ Depth \in Levels /\ z <= Depth /\ Depth \in Nat
      /\ \A l \in Levels : Up(l, z) = z
      /\ Divided(G, F, z, z, z, Depth)
      /\ \A i \in At(z) : i = z
  BY <1>1, FreshTree, Zeroth, Constants DEF Tree
<1>3. FlagsNode = Over(z, Depth, z)
  BY Zeroth DEF Over
<1> HIDE DEF D, F, G, z
<1>4. ASSUME NEW k \in 0 .. c - 1, NEW m \in Levels, NEW x \in At(m)
      PROVE  ~InUse(GL, t, N(k, m, x))
  <2>1. k \in Nat /\ N(k, m, x) \in Nodes
    BY <1>1, InNodes
  <2>2. CASE N(k, m, x) \notin Path(z, z, z, Depth)
    <3> DEFINE r == x * Width(m)
    <3>1. r \in InChunk /\ Up(m, r) = x
      BY FirstPage
    <3> HIDE DEF r
    <3>2. Up(z, r) \in At(z)
      BY <1>2, <3>1, UpAt
    <3>3. Over(k, z, r) = N(k, z, z) /\ F[Over(k, z, r)].free
      BY <1>2, <3>2 DEF Over
    <3>4. m # z => ~Leaf(F, Over(k, m, r))
      BY <1>2, <3>1, <3>3, OneLeaf DEF Leaf
    <3>5. G[N(k, m, x)] = F[N(k, m, x)]
      BY <1>2, <2>1, <2>2 DEF Divided
    <3>6. F[N(k, m, x)].free \/ F[N(k, m, x)].inner
      BY <3>1, <3>3, <3>4 DEF Over, Leaf
    <3>7. QED
      BY <3>5, <3>6 DEF InUse, G
  <2>3. CASE N(k, m, x) = Over(z, m, z) /\ k = z /\ m \in z .. Depth /\ x = Up(m, z)
    <3>1. CASE m = Depth
      BY <1>3, <2>3, <3>1 DEF InUse
    <3>2. CASE m # Depth
      <4>1. m \in z .. Depth - 1
        BY <1>2, <2>3, <3>2
      <4>2. G[N(k, m, x)] = Flag(m, FALSE, TRUE)
        BY <1>2, <2>3, <4>1 DEF Divided
      <4>3. QED
        BY <4>2 DEF InUse, Flag, G
    <3>3. QED
      BY <3>1, <3>2
  <2>4. CASE N(k, m, x) = N(z, m, Twin(Up(m, z))) /\ k = z /\ m \in z + 1 .. Depth /\ x = Twin(Up(m, z))
    <3>1. G[N(k, m, x)] = Flag(m, TRUE, FALSE)
      BY <1>2, <2>4 DEF Divided
    <3>2. QED
      BY <3>1 DEF InUse, Flag, G
  <2>5. QED
    BY <1>2, <2>1, <2>2, <2>3, <2>4, PathFlags
<1>5. 0 .. 0 - 1 = {}
  OBVIOUS
<1>6. ASSUME NEW e, Held(GL, D, e)
      PROVE  Held(FL, C, e)
  BY <1>1, <1>4, <1>6 DEF Held, InUse
<1>7. ASSUME NEW e, Held(FL, C, e)
      PROVE  Held(GL, D, e)
  BY <1>1, <1>5, <1>7 DEF Held, InUse
<1>8. QED
  BY <1>6, <1>7 DEF D

\* When no list a request may take from has a block, no extent of that size is free:
\* else the pages of one would be below smaller free blocks, and the smallest of those
\* would have a free twin.
LEMMA NoneFree ==
  ASSUME Inv, NEW d \in Levels, Candidates(Heap, d) = {}
  PROVE  Pages!Available(chunks, Width(d)) = {}
<1>1. SUFFICES ASSUME NEW e \in Pages!Available(chunks, Width(d))
               PROVE  FALSE
  OBVIOUS
<1>2. chunks \in [Trees -> ChunkCounts \cup {0}] /\ Lists(Heap, FreeAt(flags, chunks)) /\ Heap.head = head
  BY InvIs, Sound
<1>3. /\ \E t \in Trees : \E j \in 0 .. chunks[t] - 1, i \in At(d) :
           e = Extent(t, j, d, i) /\ ~(j = 0 /\ i = 0)
      /\ \A f : Held(flags, chunks, f) => ~Pages!Overlap(e, f)
  BY <1>1, <1>2, AvailableIs
<1>4. PICK t \in Trees : \E j \in 0 .. chunks[t] - 1, i \in At(d) :
           e = Extent(t, j, d, i) /\ ~(j = 0 /\ i = 0)
  BY <1>3
<1>5. PICK j \in 0 .. chunks[t] - 1, i \in At(d) : e = Extent(t, j, d, i) /\ ~(j = 0 /\ i = 0)
  BY <1>4
<1> DEFINE F == flags[t]
           c == chunks[t]
<1>6. /\ Tree(F, c) /\ Covered(F, c) /\ Merged(F, c) /\ c \in 0 .. MaxChunks /\ j \in Nat /\ c \in Nat
  BY InvIs, Sound DEF Tree
<1> HIDE DEF F, c
<1>7. ASSUME NEW l \in Levels, l <= d, NEW k \in 0 .. c - 1, NEW x \in At(l), F[N(k, l, x)].free
      PROVE  FALSE
  <2>1. l \in 0 .. d
    BY <1>7, Constants DEF Levels
  <2>2. head[l] = NULL
    BY <1>2, <2>1, NoRoots
  <2>3. Linked(Heap.hdr, NULL, FreeAt(flags, chunks)[l]) /\ FreeAt(flags, chunks)[l] \in SUBSET Addresses
    BY <1>2, <2>2 DEF Lists
  <2>4. FreeAt(flags, chunks)[l] = {}
    BY <2>3, EmptyList
  <2>5. FreeNode(flags, chunks, t, k, l, x)
    BY <1>7 DEF FreeNode, F, c
  <2>6. QED
    BY <1>2, <2>4, <2>5, FreeAtIs
\* every leaf above a page of the extent is free, and smaller
<1>8. ASSUME NEW q \in InChunk, Up(d, q) = i, NEW l \in Levels, Leaf(F, Over(j, l, q))
      PROVE  F[Over(j, l, q)].free /\ l > d
  <2>1. Up(l, q) \in At(l)
    BY UpAt
  <2>2. F[Over(j, l, q)].free
    <3>1. SUFFICES ASSUME ~F[Over(j, l, q)].free
                   PROVE  FALSE
      OBVIOUS
    <3>2. Over(j, l, q) # FlagsNode
      <4>1. SUFFICES ASSUME Over(j, l, q) = FlagsNode
                     PROVE  FALSE
        OBVIOUS
      <4> DEFINE z == 0
      <4>2. /\ Over(j, l, q) = N(z, Depth, z) /\ z \in At(Depth) /\ z \in Nat /\ Depth \in Levels
            /\ z \in InChunk /\ Up(Depth, z) = z /\ Up(d, z) = z
        BY <4>1, Zeroth
      <4> HIDE DEF z
      <4>3. j = z /\ l = Depth /\ Up(l, q) = z
        BY <1>6, <4>2, OverIs
      <4>4. q = z
        BY <4>2, <4>3, UpAt
      <4>5. QED
        BY <1>5, <1>8, <4>2, <4>3, <4>4 DEF z
    <3>3. InUse(flags, t, Over(j, l, q))
      BY <1>8, <3>1, <3>2 DEF InUse, Leaf, F
    <3>4. Held(flags, chunks, Extent(t, j, l, Up(l, q)))
      BY <2>1, <3>3 DEF Held, Over
    <3>5. Pages!Overlap(Extent(t, j, d, i), Extent(t, j, l, Up(l, q)))
      <4> DEFINE x == Up(l, q)
      <4>1. x \in At(l) /\ \E r \in InChunk : Up(d, r) = i /\ Up(l, r) = x
        BY <1>8, <2>1
      <4> HIDE DEF x
      <4>2. Pages!Overlap(Extent(t, j, d, i), Extent(t, j, l, x))
        BY <1>6, <4>1, Shared
      <4>3. QED
        BY <4>2 DEF x
    <3>6. QED
      BY <1>3, <1>5, <3>4, <3>5
  <2>3. ~(l <= d)
    BY <1>7, <2>1, <2>2 DEF Over, c
  <2>4. QED
    BY <2>2, <2>3, Constants DEF Levels
<1> DEFINE S == {l \in Levels : \E q \in InChunk : Up(d, q) = i /\ F[Over(j, l, q)].free}
<1>9. S # {}
  <2> DEFINE q == i * Width(d)
  <2>1. q \in InChunk /\ Up(d, q) = i
    BY FirstPage
  <2> HIDE DEF q
  <2>2. PICK l \in Levels : Leaf(F, Over(j, l, q))
    BY <1>6, <2>1 DEF Covered, c
  <2>3. QED
    BY <1>8, <2>1, <2>2
<1>10. PICK l \in S : \A m \in S : m <= l
  BY <1>9, Constants, Greatest DEF Levels
<1>11. PICK q \in InChunk : l \in Levels /\ Up(d, q) = i /\ F[Over(j, l, q)].free
  BY <1>10
<1>12. l > d /\ d \in Nat /\ l \in Nat
  BY <1>8, <1>11, Constants DEF Leaf, Levels
<1>13. l \in Levels \ {0} /\ l - 1 \in Levels /\ d \in 0 .. l - 1
  BY <1>11, <1>12, Constants DEF Levels
<1> DEFINE x == Up(l, q)
           y == Twin(x)
           r == y * Width(l)
<1>14. x \in At(l) /\ y \in At(l) /\ N(j, l, x) = Over(j, l, q)
  BY <1>11, <1>13, UpAt, Twins DEF Over
<1>15. r \in InChunk /\ Up(l, r) = y
  BY <1>13, <1>14, FirstPage
<1> HIDE DEF r
<1>16. Up(l - 1, q) = Up(l - 1, r)
  BY <1>11, <1>13, <1>15, TwinAbove
<1>17. Up(d, r) = i
  BY <1>11, <1>13, <1>15, <1>16, SameAbove
<1>18. PICK m \in Levels : Leaf(F, Over(j, m, r))
  BY <1>6, <1>15 DEF Covered, c
<1>19. F[Over(j, m, r)].free /\ m \in S /\ m <= l
  BY <1>8, <1>10, <1>15, <1>17, <1>18
<1>20. CASE m = l
  BY <1>6, <1>11, <1>13, <1>14, <1>15, <1>19, <1>20 DEF Over, Merged, c
<1>21. CASE m # l
  <2>1. m \in 0 .. l - 1
    BY <1>12, <1>19, <1>21, Constants DEF Levels
  <2>2. Up(m, q) = Up(m, r)
    BY <1>11, <1>13, <1>15, <1>16, <2>1, SameAbove
  <2>3. Leaf(F, Over(j, m, q)) /\ Leaf(F, Over(j, l, q))
    BY <1>11, <1>18, <2>2 DEF Over, Leaf
  <2>4. QED
    BY <1>6, <1>11, <1>21, <2>3, OneLeaf DEF c
<1>22. QED
  BY <1>20, <1>21

(***************************************************************************)
(* The tree pool implements the page pool.                                 *)
(***************************************************************************)
\* The last call, as a client of the page pool sees it.
CallOut == [op  |-> call.op,
            arg |-> IF call.op = "deallocate" THEN ExtentOf(call.arg) ELSE call.arg,
            ret |-> IF call.op = "deallocate" THEN call.ret ELSE ExtentOf(call.ret)]

\* A call that returns a block returns its extent in the page pool.
LEMMA CallsOut ==
  /\ \A size, b : Returns("allocate", size, b) => Pages!Returns("allocate", size, ExtentOf(b))
  /\ \A b, r : Returns("deallocate", b, r) => Pages!Returns("deallocate", ExtentOf(b), r)
<1>1. ASSUME NEW size, NEW b, Returns("allocate", size, b)
      PROVE  CallOut' = [op |-> "allocate", arg |-> size, ret |-> ExtentOf(b)]
  <2>1. call' = [op |-> "allocate", arg |-> size, ret |-> b]
    BY <1>1 DEF Returns
  <2>2. call'.op = "allocate" /\ call'.arg = size /\ call'.ret = b
    BY <2>1
  <2>3. CallOut' = [op  |-> call'.op,
                    arg |-> IF call'.op = "deallocate" THEN ExtentOf(call'.arg) ELSE call'.arg,
                    ret |-> IF call'.op = "deallocate" THEN call'.ret ELSE ExtentOf(call'.ret)]
    BY DEF CallOut, ExtentOf, Address, Level, Levels, Local, Slots
  <2>4. "allocate" # "deallocate"
    OBVIOUS
  <2>5. QED
    BY <2>2, <2>3, <2>4
<1>2. ASSUME NEW b, NEW r, Returns("deallocate", b, r)
      PROVE  CallOut' = [op |-> "deallocate", arg |-> ExtentOf(b), ret |-> r]
  <2>1. call' = [op |-> "deallocate", arg |-> b, ret |-> r]
    BY <1>2 DEF Returns
  <2>2. call'.op = "deallocate" /\ call'.arg = b /\ call'.ret = r
    BY <2>1
  <2>3. CallOut' = [op  |-> call'.op,
                    arg |-> IF call'.op = "deallocate" THEN ExtentOf(call'.arg) ELSE call'.arg,
                    ret |-> IF call'.op = "deallocate" THEN call'.ret ELSE ExtentOf(call'.ret)]
    BY DEF CallOut, ExtentOf, Address, Level, Levels, Local, Slots
  <2>4. QED
    BY <2>2, <2>3
<1>3. QED
  BY <1>1, <1>2 DEF Pages!Returns, CallOut

\* A pool without trees is a page pool without memory.
LEMMA InitPages ==
  ASSUME Init
  PROVE  Pages!Init
<1>1. chunks = [t \in Trees |-> 0] /\ call = [op |-> "none", arg |-> 0, ret |-> NoBlock]
  BY DEF Init
<1>2. 0 .. 0 - 1 = {}
  OBVIOUS
<1>3. \A e : ~Held(flags, chunks, e)
  BY <1>1, <1>2 DEF Held
<1>4. Owned = {}
  BY <1>3, InitInv, OwnedIs DEF Owns
<1>5. CallOut = [op |-> "none", arg |-> 0, ret |-> Pages!None]
  BY <1>1 DEF ExtentOf, Pages!None, CallOut
<1>6. QED
  BY <1>1, <1>4, <1>5 DEF Pages!Init, Pages!Trees, Trees, Owned, CallOut

\* Taking a block from heap h hands out its extent.
LEMMA Granted ==
  ASSUME Inv, Inv', NEW h, NEW C, Listed(h, C), Kept(h.flags, C), NEW size,
         RequestDepth(size) \in Levels, size = Width(RequestDepth(size)),
         Candidates(h, RequestDepth(size)) # {}, TakeFrom(h, size), chunks' = C,
         \A e : Held(h.flags, C, e) <=> Held(flags, chunks, e)
  PROVE  Pages!Grant(C, size)
<1> DEFINE d == RequestDepth(size)
           a == BestLevel(h, d)
           R == Taken(h, d)
<1>1. HeapBecomes(R.heap) /\ Returns("allocate", size, R.block)
  BY DEF TakeFrom, Taken
<1>2. d \in Levels /\ size = Width(d) /\ Candidates(h, d) # {}
  OBVIOUS
<1> HIDE DEF d
<1>3. /\ Listed(R.heap, C)
      /\ a \in Levels /\ a <= d /\ Takes(h, C, a, d, R)
  BY <1>2, TakeGood
<1> HIDE DEF R, a
<1>4. PICK t \in Trees : \E j \in 0 .. C[t] - 1, q \in InChunk :
                  /\ h.flags[t][Over(j, a, q)].free
                  /\ R.block = <<t, Over(j, d, q)>>
                  /\ Divided(R.heap.flags[t], h.flags[t], j, q, a, d)
                  /\ \A u \in Trees \ {t} : R.heap.flags[u] = h.flags[u]
  BY <1>3 DEF Takes
<1>5. PICK j \in 0 .. C[t] - 1, q \in InChunk :
                  /\ h.flags[t][Over(j, a, q)].free
                  /\ R.block = <<t, Over(j, d, q)>>
                  /\ Divided(R.heap.flags[t], h.flags[t], j, q, a, d)
                  /\ \A u \in Trees \ {t} : R.heap.flags[u] = h.flags[u]
  BY <1>4
<1>6. /\ flags' = R.heap.flags /\ Forest(h.flags, C) /\ C \in [Trees -> ChunkCounts \cup {0}]
      /\ C[t] \in Nat /\ j \in Nat
  BY <1>1, Sound DEF HeapBecomes
<1> DEFINE i == Up(d, q)
           e == Extent(t, j, d, i)
<1>7. i \in At(d)
  BY <1>2, UpAt
<1>8. ~(j = 0 /\ i = 0) /\ \A f : Held(h.flags, C, f) => ~Pages!Overlap(e, f)
  BY <1>2, <1>3, <1>5, <1>6, Grantable
<1>9. \A f : Held(flags', C, f) <=> Held(h.flags, C, f) \/ f = e
  BY <1>2, <1>3, <1>5, <1>6, HeldDivided
<1>10. R.block = Block(t, j, d, i)
  BY <1>5 DEF Block, Over
<1> HIDE DEF i
<1>11. ExtentOf(R.block) = e
  BY <1>2, <1>6, <1>7, <1>10, ExtentIs
<1>12. e \in Pages!Available(C, size)
  BY <1>2, <1>6, <1>7, <1>8, AvailableIs
<1> HIDE DEF e
<1>13. Owned' = Owned \cup {e}
  BY <1>9, OwnedIs, OwnedNext DEF Owns
<1>14. Pages!Returns("allocate", size, e)
  BY <1>1, <1>11, CallsOut
<1>15. QED
  BY <1>12, <1>13, <1>14 DEF Pages!Grant, Owned

\* An allocation from the lists is the page pool's Allocate.
LEMMA AllocatePages ==
  ASSUME Inv, Inv', NEW size \in 0 .. 2 ^ Depth + 1, AllocateFree(size)
  PROVE  Pages!Allocate(size)
<1>1. ValidSize(size) /\ Candidates(Heap, RequestDepth(size)) # {} /\ TakeFrom(Heap, size) /\ chunks' = chunks
  BY DEF AllocateFree
<1>2. size \in Nat
  BY SlotsAre
<1>3. size \in Pages!Sizes /\ RequestDepth(size) \in Levels /\ size = Width(RequestDepth(size))
  BY <1>1, <1>2, Requested
<1>4. Listed(Heap, chunks) /\ Kept(Heap.flags, chunks) /\ Heap.flags = flags
  BY InvIs
<1>5. \A e : Held(Heap.flags, chunks, e) <=> Held(flags, chunks, e)
  BY <1>4
<1>6. Pages!Grant(chunks, size)
  BY <1>1, <1>3, <1>4, <1>5, Granted
<1>7. QED
  BY <1>1, <1>3, <1>6 DEF Pages!Allocate

\* One from a new tree is its MapAndAllocate: nothing was available before, as no list had a block.
LEMMA MapPages ==
  ASSUME Inv, Inv', NEW size \in 0 .. 2 ^ Depth + 1, AllocateFromNewTree(size)
  PROVE  Pages!MapAndAllocate(size)
<1> DEFINE d == RequestDepth(size)
           t == ntrees
<1>1. ValidSize(size) /\ Candidates(Heap, d) = {} /\ t < MaxTrees
  BY DEF AllocateFromNewTree
<1>2. PICK c \in ChunkCounts : /\ chunks' = [chunks EXCEPT ![t] = c]
                               /\ TakeFrom(AddTree(Heap, t, c), size)
  BY DEF AllocateFromNewTree
<1> DEFINE A == AddTree(Heap, t, c)
           D == [chunks EXCEPT ![t] = c]
<1>3. size \in Nat /\ size \in Pages!Sizes /\ d \in Levels /\ size = Width(d)
  BY <1>1, SlotsAre, Requested
<1>4. /\ t \in Trees /\ chunks[t] = 0 /\ t \in 0 .. MaxTrees
      /\ \A u \in Trees : chunks[u] > 0 <=> u < t
      /\ chunks \in [Trees -> ChunkCounts \cup {0}]
  BY <1>1, NextTree, InvIs
<1>5. Listed(Heap, chunks) /\ Kept(Heap.flags, chunks) /\ Heap.flags = flags
  BY InvIs
<1>6. Pages!Available(chunks, size) = {}
  BY <1>1, <1>3, NoneFree
<1>7. Heap.head[0] = NULL
  BY <1>1, <1>3, Constants, NoRoots DEF Levels
<1> HIDE DEF d, t
<1>8. /\ Listed(A, D) /\ Kept(A.flags, D) /\ Candidates(A, d) # {}
      /\ Divided(A.flags[t], Fresh(c), 0, 0, 0, Depth)
      /\ \A u \in Trees \ {t} : A.flags[u] = Heap.flags[u]
  BY <1>3, <1>4, <1>5, <1>7, AddGood
<1>9. \A u \in Trees \ {t} : A.flags[u] = flags[u]
  BY <1>5, <1>8
<1> HIDE DEF A
<1>10. \A e : Held(A.flags, D, e) <=> Held(flags, chunks, e)
  BY <1>4, <1>8, <1>9, HeldFresh
<1>11. TakeFrom(A, size) /\ chunks' = D
  BY <1>2 DEF A
<1> HIDE DEF D
<1>12. Pages!Grant(D, size)
  BY <1>3, <1>8, <1>10, <1>11, Granted DEF d
<1>13. t \in Pages!Trees \ Pages!Mapped /\ \A u \in Pages!Trees : u < t => u \in Pages!Mapped
  BY <1>4 DEF Pages!Trees, Pages!Mapped, Trees
<1>14. Pages!Grant([chunks EXCEPT ![t] = c], size) /\ chunks' = [chunks EXCEPT ![t] = c]
  BY <1>11, <1>12 DEF D
<1>15. QED
  BY <1>3, <1>6, <1>13, <1>14 DEF Pages!MapAndAllocate

\* The extents owned depend on the pool's state only.
LEMMA SameOwned ==
  ASSUME UNCHANGED <<chunks, flags, head, hdr>>
  PROVE  Owned' = Owned
BY DEF Owned, OwnedBlocks, Blocks, FlagOf, ExtentOf, Address, Level, Levels, Local, Slots

\* A refusal is the page pool's Refuse: when no list has a block, no extent is available.
LEMMA RefusePages ==
  ASSUME Inv, NEW size \in 0 .. 2 ^ Depth + 1, AllocateFails(size)
  PROVE  Pages!Refuse(size)
<1>1. /\ ValidSize(size) => Candidates(Heap, RequestDepth(size)) = {}
      /\ Returns("allocate", size, NoBlock) /\ UNCHANGED <<chunks, flags, head, hdr>>
  BY DEF AllocateFails
<1>2. size \in Nat
  BY SlotsAre
<1>3. size \in Pages!Sizes => Pages!Available(chunks, size) = {}
  <2>1. SUFFICES ASSUME size \in Pages!Sizes
                 PROVE  Pages!Available(chunks, size) = {}
    OBVIOUS
  <2>2. ValidSize(size) /\ RequestDepth(size) \in Levels /\ size = Width(RequestDepth(size))
    BY <1>2, <2>1, Requested
  <2>3. QED
    BY <1>1, <2>2, NoneFree
<1>4. ExtentOf(NoBlock) = Pages!None
  BY DEF ExtentOf, Pages!None
<1>5. Pages!Returns("allocate", size, Pages!None)
  BY <1>1, <1>4, CallsOut
<1>6. Owned' = Owned /\ chunks' = chunks
  BY <1>1, SameOwned
<1>7. QED
  BY <1>3, <1>5, <1>6 DEF Pages!Refuse, Owned

\* A handle is a node, and names an extent.
LEMMA HandleIs ==
  ASSUME Inv, NEW b \in Handles
  PROVE  /\ b \in Blocks /\ b = <<b[1], b[2]>> /\ b[2] # FlagsNode
         /\ \E t \in Trees : \E j \in 0 .. chunks[t] - 1, l \in Levels, q \in InChunk :
              b = Block(t, j, l, Up(l, q)) /\ Up(l, q) \in At(l)
<1>1. b \in Blocks /\ b = <<b[1], b[2]>> /\ b[2] # FlagsNode
  BY DEF Handles, Blocks
<1>2. QED
  BY <1>1, BlockOf

\* The extent of a node is one of the page pool's.
LEMMA InExtents ==
  ASSUME Inv, NEW t \in Trees, NEW j \in 0 .. chunks[t] - 1, NEW l \in Levels, NEW i \in At(l)
  PROVE  Extent(t, j, l, i) \in Pages!Extents
<1> DEFINE H == 2 ^ Depth
           w == Width(l)
           p == 2 ^ l
           c == chunks[t]
           f == j * H + i * w
<1>1. H \in Nat \ {0} /\ w \in Nat \ {0} /\ p \in Nat \ {0} /\ H = p * w /\ i \in 0 .. p - 1
  BY Widths DEF At
<1>2. c \in Nat /\ j \in Nat /\ j + 1 <= c
  BY InvIs, Sound
<1>3. f \in 0 .. c * H - 1
  <2> DEFINE x == j * H
             e == i * w
             y == c * H
  <2>1. x \in Nat /\ y \in Nat /\ x + H <= y
    BY <1>1, <1>2
  <2>2. e \in Nat /\ e + w <= H
    BY <1>1
  <2> HIDE DEF x, e, y, H, w
  <2>3. x + e \in 0 .. y - 1
    BY <1>1, <2>1, <2>2
  <2>4. QED
    BY <2>3 DEF x, e, y
<1>4. w \in Pages!Sizes
  BY Constants DEF Levels, Pages!Sizes, Width
<1> HIDE DEF f, w, H, c
<1>5. Extent(t, j, l, i) = [tree |-> t, first |-> f, size |-> w]
  BY DEF Extent, f, w, H
<1>6. Extent(t, j, l, i) \in [tree : {t}, first : 0 .. c * H - 1, size : Pages!Sizes]
  BY <1>3, <1>4, <1>5
<1>7. QED
  BY <1>6 DEF Pages!Extents, Pages!Trees, Trees, c, H

\* A deallocation is the page pool's Deallocate.
LEMMA DeallocatePages ==
  ASSUME Inv, Inv', NEW b \in Handles \cup {NoBlock}, Deallocate(b)
  PROVE  ExtentOf(b) \in Pages!Extents /\ Pages!Deallocate(ExtentOf(b))
<1> DEFINE t == b[1]
           n == b[2]
           R == Coalesce(Heap, <<t, n>>)
<1>1. Deallocatable(b) /\ HeapBecomes(Coalesce(Heap, b)) /\ Returns("deallocate", b, 0) /\ UNCHANGED chunks
  BY DEF Deallocate
<1>2. /\ b = <<t, n>> /\ t \in Trees /\ n \in Nodes
      /\ n < chunks[t] * Slots /\ Local(n) # Slots - 1 /\ n # FlagsNode
      /\ ~flags[t][n].free /\ ~flags[t][n].inner
  BY <1>1, Given
<1>3. /\ Listed(Heap, chunks) /\ Kept(Heap.flags, chunks) /\ Heap.flags = flags
      /\ Forest(flags, chunks)
  BY InvIs, Sound
<1>4. flags' = R.flags
  BY <1>1, <1>2 DEF HeapBecomes
<1> HIDE DEF t, n
<1>5. /\ \A u \in Trees \ {t} : R.flags[u] = Heap.flags[u]
      /\ \E j \in 0 .. chunks[t] - 1, q \in InChunk, d \in Levels, a \in Levels :
           /\ n = Over(j, d, q) /\ a <= d
           /\ Coalescing(R.flags[t], Heap.flags[t], j, q, a, d)
           /\ \A m \in a + 1 .. d : Heap.flags[t][N(j, m, Twin(Up(m, q)))].free
  <2>1. Gives(Heap, chunks, t, n, R)
    BY <1>2, <1>3, GiveGood
  <2> HIDE DEF R
  <2>2. QED
    BY <2>1 DEF Gives
<1> HIDE DEF R
<1>6. PICK j \in 0 .. chunks[t] - 1, q \in InChunk, d \in Levels, a \in Levels :
           /\ n = Over(j, d, q) /\ a <= d
           /\ Coalescing(R.flags[t], flags[t], j, q, a, d)
           /\ \A m \in a + 1 .. d : flags[t][N(j, m, Twin(Up(m, q)))].free
  BY <1>3, <1>5
<1>7. InUse(flags, t, Over(j, d, q))
  BY <1>2, <1>6 DEF InUse
<1>8. \A u \in Trees \ {t} : R.flags[u] = flags[u]
  BY <1>3, <1>5
<1> DEFINE i == Up(d, q)
           e == Extent(t, j, d, i)
<1>9. /\ \A f : Held(R.flags, chunks, f) <=> Held(flags, chunks, f) /\ f # e
      /\ Held(flags, chunks, e)
  BY <1>2, <1>3, <1>6, <1>7, <1>8, HeldCoalesced
<1>10. i \in At(d) /\ b = Block(t, j, d, i) /\ j \in Nat
  BY <1>2, <1>6, InvIs, Sound, UpAt DEF Block, Over
<1> HIDE DEF i
<1>11. ExtentOf(b) = e
  BY <1>10, ExtentIs
<1>12. e \in Pages!Extents
  BY <1>2, <1>10, InExtents
<1> HIDE DEF e
<1>13. Owned' = Owned \ {e} /\ e \in Owned
  BY <1>1, <1>4, <1>9, OwnedIs, OwnedNext DEF Owns
<1>14. Pages!Returns("deallocate", e, 0)
  BY <1>1, <1>11, CallsOut
<1>15. QED
  BY <1>1, <1>11, <1>12, <1>13, <1>14 DEF Pages!Deallocate, Owned

\* A block refused by deallocate names no extent in use.
LEMMA RejectPages ==
  ASSUME Inv, NEW b \in Handles \cup {NoBlock}, DeallocateRejected(b)
  PROVE  ExtentOf(b) \in Pages!Extents \cup {Pages!None} /\ Pages!RefuseDeallocate(ExtentOf(b))
<1>1. ~Deallocatable(b) /\ Returns("deallocate", b, 1) /\ UNCHANGED <<chunks, flags, head, hdr>>
  BY DEF DeallocateRejected
<1>2. \A f : f \in Owned <=> Held(flags, chunks, f)
  BY OwnedIs DEF Owns
<1>3. ExtentOf(b) \in Pages!Extents \cup {Pages!None} /\ ExtentOf(b) \notin Owned
  <2>1. CASE b = NoBlock
    BY <1>2, <2>1 DEF ExtentOf, Pages!None, Held, Extent, Trees
  <2>2. CASE b \in Handles
    <3>1. PICK t \in Trees : \E j \in 0 .. chunks[t] - 1, l \in Levels, q \in InChunk :
              b = Block(t, j, l, Up(l, q)) /\ Up(l, q) \in At(l)
      BY <2>2, HandleIs
    <3>2. PICK j \in 0 .. chunks[t] - 1, l \in Levels, q \in InChunk :
              b = Block(t, j, l, Up(l, q)) /\ Up(l, q) \in At(l)
      BY <3>1
    <3> DEFINE i == Up(l, q)
    <3>3. i \in At(l) /\ b = Block(t, j, l, i)
      BY <3>2
    <3> HIDE DEF i
    <3>4. j \in Nat /\ b[1] = t /\ b[2] = N(j, l, i) /\ b \in Blocks /\ b[2] # FlagsNode /\ b # NoBlock
      BY <2>2, <3>3, BlockIs, HandleIs, ExtentIs DEF Block
    <3>5. ~InUse(flags, t, N(j, l, i))
      BY <1>1, <3>4 DEF Deallocatable, Blocks, InUse
    <3>6. ExtentOf(b) = Extent(t, j, l, i) /\ Extent(t, j, l, i) \in Pages!Extents
      BY <3>3, <3>4, ExtentIs, InExtents
    <3>7. ~Held(flags, chunks, Extent(t, j, l, i))
      <4>1. SUFFICES ASSUME Held(flags, chunks, Extent(t, j, l, i))
                     PROVE  FALSE
        OBVIOUS
      <4>2. PICK u \in Trees : \E k \in 0 .. chunks[u] - 1, m \in Levels : \E x \in At(m) :
               Extent(t, j, l, i) = Extent(u, k, m, x) /\ InUse(flags, u, N(k, m, x))
        BY <4>1 DEF Held
      <4>3. PICK k \in 0 .. chunks[u] - 1, m \in Levels : \E x \in At(m) :
               Extent(t, j, l, i) = Extent(u, k, m, x) /\ InUse(flags, u, N(k, m, x))
        BY <4>2
      <4>4. PICK x \in At(m) : Extent(t, j, l, i) = Extent(u, k, m, x) /\ InUse(flags, u, N(k, m, x))
        BY <4>3
      <4>5. k \in Nat
        BY InvIs, Sound
      <4>6. t = u /\ j = k /\ l = m /\ i = x
        BY <3>3, <3>4, <4>4, <4>5, ExtentOne
      <4>7. QED
        BY <3>5, <4>4, <4>6
    <3>8. QED
      BY <1>2, <3>6, <3>7
  <2>3. QED
    BY <2>1, <2>2
<1>4. Owned' = Owned /\ chunks' = chunks
  BY <1>1, SameOwned
<1>5. Pages!Returns("deallocate", ExtentOf(b), 1)
  BY <1>1, CallsOut
<1>6. QED
  BY <1>3, <1>4, <1>5 DEF Pages!RefuseDeallocate, Owned

\* Every step is one of the page pool, or none.
LEMMA StepPages ==
  ASSUME Inv, Inv', [Next]_vars
  PROVE  [Pages!Next]_(Pages!vars)
<1>1. ASSUME NEW size \in 0 .. 2 ^ Depth + 1,
             AllocateFree(size) \/ AllocateFromNewTree(size) \/ AllocateFails(size)
      PROVE  Pages!Next
  BY <1>1, AllocatePages, MapPages, RefusePages DEF Pages!Next
<1>2. ASSUME NEW b \in Handles \cup {NoBlock}, Deallocate(b) \/ DeallocateRejected(b)
      PROVE  Pages!Next
  BY <1>2, DeallocatePages, RejectPages DEF Pages!Next
<1>3. CASE UNCHANGED vars
  <2>1. UNCHANGED <<chunks, flags, head, hdr>> /\ call' = call
    BY <1>3 DEF vars
  <2>2. Owned' = Owned
    BY <2>1, SameOwned
  <2>3. CallOut' = CallOut
    BY <2>1 DEF CallOut, ExtentOf, Address, Level, Levels, Local, Slots
  <2>4. QED
    BY <2>1, <2>2, <2>3 DEF Pages!vars, Owned, CallOut
<1>4. QED
  BY <1>1, <1>2, <1>3 DEF Next

\* The pool of trees, lists and flags hands out pages as the page pool promises to.
THEOREM Implementation == Spec => ImplementsPagePool
<1>1. Init => Pages!Init
  BY InitPages
<1>2. Inv /\ Inv' /\ [Next]_vars => [Pages!Next]_(Pages!vars)
  BY StepPages
<1>3. QED
  BY <1>1, <1>2, Invariance, PTL DEF Spec, ImplementsPagePool, Pages!Spec

(***************************************************************************)
(* The loops (TreePoolLoops).                                              *)
(***************************************************************************)
\* Two sequences of values that begin alike and continue alike are the same.
Alike(f, g, lo, hi) ==
  f[lo] = g[lo] /\ \A i \in lo .. hi - 1 : f[i] = g[i] => f[i + 1] = g[i + 1]

\* Then they are equal everywhere.
LEMMA Stepwise ==
  ASSUME NEW lo \in Int, NEW hi \in Int, NEW f, NEW g, Alike(f, g, lo, hi)
  PROVE  \A i \in lo .. hi : f[i] = g[i]
<1>0. f[lo] = g[lo] /\ \A i \in lo .. hi - 1 : f[i] = g[i] => f[i + 1] = g[i + 1]
  BY DEF Alike
<1> DEFINE S == {k \in Nat : lo + k <= hi /\ f[lo + k] # g[lo + k]}
<1>1. S = {}
  <2>1. SUFFICES ASSUME S # {}
                 PROVE  FALSE
    OBVIOUS
  <2>2. S \subseteq Nat
    OBVIOUS
  <2>3. PICK p \in S : \A q \in S : p <= q
    BY <2>1, <2>2, Least
  <2>4. p \in Nat /\ p # 0 /\ lo + p <= hi /\ f[lo + p] # g[lo + p]
    BY <1>0, <2>3
  <2>5. p - 1 \notin S /\ p - 1 \in Nat
    BY <2>3, <2>4
  <2> DEFINE i == lo + (p - 1)
  <2>6. f[i] = g[i] /\ i \in lo .. hi - 1 /\ i + 1 = lo + p
    BY <2>4, <2>5
  <2> HIDE DEF i
  <2>7. f[i + 1] = g[i + 1]
    BY <1>0, <2>6
  <2>8. QED
    BY <2>4, <2>6, <2>7
<1>2. SUFFICES ASSUME NEW i \in lo .. hi
               PROVE  f[i] = g[i]
  OBVIOUS
<1> DEFINE k == i - lo
<1>3. k \in Nat /\ lo + k = i /\ lo + k <= hi
  OBVIOUS
<1> HIDE DEF k
<1>4. QED
  BY <1>1, <1>3

\* A heap has links at all addresses and a list at every level.
Shaped(h) == h = [flags |-> h.flags, head |-> [l \in Levels |-> h.head[l]],
                  hdr |-> [a \in Addresses |-> h.hdr[a]]]

\* A heap of the type has that shape.
LEMMA HeapShape ==
  ASSUME NEW h \in HeapType
  PROVE  Shaped(h)
<1>1. /\ h = [flags |-> h.flags, head |-> h.head, hdr |-> h.hdr]
      /\ h.head \in [Levels -> Addresses \cup {NULL}] /\ h.hdr \in [Addresses -> HeaderType]
  BY DEF HeapType
<1>2. h.head = [l \in Levels |-> h.head[l]] /\ h.hdr = [a \in Addresses |-> h.hdr[a]]
  BY <1>1
<1>3. QED
  BY <1>1, <1>2 DEF Shaped

\* PushEach changes the heads and the links of a heap, not its shape.
LEMMA PushParts ==
  ASSUME NEW h, Shaped(h), NEW new
  PROVE  /\ Shaped(PushEach(h, new))
         /\ PushEach(h, new) = [flags |-> h.flags, head |-> PushHead(h, new), hdr |-> PushHdr(h, new)]
<1> DEFINE K == PushHdr(h, new)
           first == PushHead(h, new)
<1>1. K = [a \in Addresses |-> K[a]] /\ first = [l \in Levels |-> first[l]]
  BY DEF PushHdr, PushHead
<1> HIDE DEF K, first
<1>2. PushEach(h, new) = [h EXCEPT !.hdr = K, !.head = first]
  BY PushEachIs DEF K, first
<1>3. h = [flags |-> h.flags, head |-> [l \in Levels |-> h.head[l]],
           hdr |-> [a \in Addresses |-> h.hdr[a]]]
  BY DEF Shaped
<1>4. PushEach(h, new) = [flags |-> h.flags, head |-> first, hdr |-> K]
  BY <1>2, <1>3
<1>5. QED
  BY <1>1, <1>4 DEF Shaped, K, first

\* And so does PopEach.
LEMMA PopParts ==
  ASSUME NEW h, Shaped(h), NEW gone
  PROVE  /\ Shaped(PopEach(h, gone))
         /\ PopEach(h, gone) = [flags |-> h.flags, head |-> PopHead(h, gone), hdr |-> PopHdr(h, gone)]
<1> DEFINE K == PopHdr(h, gone)
           first == PopHead(h, gone)
<1>1. K = [a \in Addresses |-> K[a]] /\ first = [l \in Levels |-> first[l]]
  BY DEF PopHdr, PopHead
<1> HIDE DEF K, first
<1>2. PopEach(h, gone) = [h EXCEPT !.hdr = K, !.head = first]
  BY PopEachIs DEF K, first
<1>3. h = [flags |-> h.flags, head |-> [l \in Levels |-> h.head[l]],
           hdr |-> [a \in Addresses |-> h.hdr[a]]]
  BY DEF Shaped
<1>4. PopEach(h, gone) = [flags |-> h.flags, head |-> first, hdr |-> K]
  BY <1>2, <1>3
<1>5. QED
  BY <1>1, <1>4 DEF Shaped, K, first

\* Neither reads the flags or changes them.
WithFlagsOf(h, FL) == [h EXCEPT !.flags = FL]

\* Marking nodes and moving blocks between lists commute.
LEMMA FlagsApart ==
  ASSUME NEW h, Shaped(h), NEW FL, NEW f
  PROVE  /\ Shaped(WithFlagsOf(h, FL)) /\ WithFlagsOf(h, FL).flags = FL
         /\ WithFlagsOf(h, FL).head = h.head /\ WithFlagsOf(h, FL).hdr = h.hdr
         /\ PushEach(WithFlagsOf(h, FL), f) = WithFlagsOf(PushEach(h, f), FL)
         /\ PopEach(WithFlagsOf(h, FL), f) = WithFlagsOf(PopEach(h, f), FL)
<1> DEFINE g == WithFlagsOf(h, FL)
<1>1. h = [flags |-> h.flags, head |-> [l \in Levels |-> h.head[l]],
           hdr |-> [a \in Addresses |-> h.hdr[a]]]
  BY DEF Shaped
<1>2. g = [flags |-> FL, head |-> h.head, hdr |-> h.hdr]
  BY <1>1 DEF WithFlagsOf
<1>3. g.flags = FL /\ g.head = h.head /\ g.hdr = h.hdr
  BY <1>2
<1>4. h.head = [l \in Levels |-> h.head[l]] /\ h.hdr = [a \in Addresses |-> h.hdr[a]]
  BY <1>1
<1>5. Shaped(g)
  BY <1>2, <1>3, <1>4 DEF Shaped
<1> HIDE DEF g
<1>6. PushHead(g, f) = PushHead(h, f)
  BY <1>3 DEF PushHead
<1>7. PushHdr(g, f) = PushHdr(h, f)
  BY <1>3 DEF PushHdr, HeadAt, IsHead
<1>8. PopHead(g, f) = PopHead(h, f)
  BY <1>3 DEF PopHead
<1>9. PopHdr(g, f) = PopHdr(h, f)
  BY <1>3 DEF PopHdr, After, Before, NextOf, PrevOf
<1>10. PushEach(g, f) = WithFlagsOf(PushEach(h, f), FL)
  <2> DEFINE x == PushHead(h, f)
             y == PushHdr(h, f)
  <2>1. PushEach(g, f) = [flags |-> FL, head |-> x, hdr |-> y]
    BY <1>3, <1>5, <1>6, <1>7, PushParts
  <2>2. PushEach(h, f) = [flags |-> h.flags, head |-> x, hdr |-> y]
    BY PushParts
  <2> HIDE DEF x, y
  <2>3. QED
    BY <2>1, <2>2 DEF WithFlagsOf
<1>11. PopEach(g, f) = WithFlagsOf(PopEach(h, f), FL)
  <2> DEFINE x == PopHead(h, f)
             y == PopHdr(h, f)
  <2>1. PopEach(g, f) = [flags |-> FL, head |-> x, hdr |-> y]
    BY <1>3, <1>5, <1>8, <1>9, PopParts
  <2>2. PopEach(h, f) = [flags |-> h.flags, head |-> x, hdr |-> y]
    BY PopParts
  <2> HIDE DEF x, y
  <2>3. QED
    BY <2>1, <2>2 DEF WithFlagsOf
<1>12. QED
  BY <1>3, <1>5, <1>10, <1>11 DEF g

\* What the code writes when it pushes a block.
LEMMA PushAtParts ==
  ASSUME NEW FL, NEW hd, NEW H, NEW a, NEW b, NEW l
  PROVE  PushAt([flags |-> FL, head |-> hd, hdr |-> H], a, b, l) =
           [flags |-> FL, head |-> [hd EXCEPT ![l] = a],
            hdr |-> [x \in DOMAIN H |->
                       IF x = a THEN [prev |-> NULL, next |-> hd[l], blockID |-> b]
                       ELSE IF x = hd[l] THEN [H[x] EXCEPT !.prev = a] ELSE H[x]]]
<1> DEFINE h == [flags |-> FL, head |-> hd, hdr |-> H]
           top == [hd EXCEPT ![l] = a]
           K == [x \in DOMAIN H |->
                       IF x = a THEN [prev |-> NULL, next |-> hd[l], blockID |-> b]
                       ELSE IF x = hd[l] THEN [H[x] EXCEPT !.prev = a] ELSE H[x]]
<1>1. PushAt(h, a, b, l) = [h EXCEPT !.head = top, !.hdr = K]
  BY DEF PushAt
<1> HIDE DEF top, K
<1>2. PushAt(h, a, b, l) = [flags |-> FL, head |-> top, hdr |-> K]
  BY <1>1
<1>3. QED
  BY <1>2 DEF top, K

\* One block pushed as the code does it (hmesh_tpool_push ()).
LEMMA PushAtIs ==
  ASSUME NEW h, Shaped(h), NEW l \in Levels, NEW b
  PROVE  PushAt(h, Address(b, l), b, l) = PushEach(h, Alone(l, b))
<1> DEFINE a == Address(b, l)
           new == Alone(l, b)
<1>1. h = [flags |-> h.flags, head |-> [k \in Levels |-> h.head[k]],
           hdr |-> [x \in Addresses |-> h.hdr[x]]]
  BY DEF Shaped
<1>2. DOMAIN new = {l} /\ new[l] = b
  BY DEF Alone
<1>3. PlaceOf(new, l) = a
  BY <1>2 DEF PlaceOf
<1> HIDE DEF a, new
<1>4. \A x : IsNew(new, x) <=> x = a
  BY <1>2, <1>3 DEF IsNew
<1>5. \A x : IsHead(h, new, x) <=> x = h.head[l]
  BY <1>2 DEF IsHead
<1>6. NewAt(new, a) = l
  BY <1>2, <1>3 DEF NewAt
<1>7. HeadAt(h, new, h.head[l]) = l
  BY <1>2 DEF HeadAt
<1> DEFINE K == [x \in Addresses |->
               IF x = a THEN [prev |-> NULL, next |-> h.head[l], blockID |-> b]
               ELSE IF x = h.head[l] THEN [h.hdr[x] EXCEPT !.prev = a] ELSE h.hdr[x]]
           first == [k \in Levels |-> IF k = l THEN a ELSE h.head[k]]
<1>8. PushHdr(h, new) = K
  BY <1>2, <1>3, <1>4, <1>5, <1>6, <1>7 DEF PushHdr
<1>9. PushHead(h, new) = first
  BY <1>2, <1>3 DEF PushHead
<1>10. PushAt(h, a, b, l) = [flags |-> h.flags, head |-> first, hdr |-> K]
  <2>1. h.head = [k \in Levels |-> h.head[k]] /\ h.hdr = [x \in Addresses |-> h.hdr[x]]
    BY <1>1
  <2>2. [h.head EXCEPT ![l] = a] = first
    BY <2>1
  <2>3. [x \in DOMAIN h.hdr |->
               IF x = a THEN [prev |-> NULL, next |-> h.head[l], blockID |-> b]
               ELSE IF x = h.head[l] THEN [h.hdr[x] EXCEPT !.prev = a] ELSE h.hdr[x]] = K
    BY <2>1
  <2>4. PushAt(h, a, b, l) =
          [h EXCEPT !.head = [h.head EXCEPT ![l] = a],
                    !.hdr = [x \in DOMAIN h.hdr |->
               IF x = a THEN [prev |-> NULL, next |-> h.head[l], blockID |-> b]
               ELSE IF x = h.head[l] THEN [h.hdr[x] EXCEPT !.prev = a] ELSE h.hdr[x]]]
    BY DEF PushAt
  <2> HIDE DEF K, first
  <2>5. QED
    BY <1>1, <2>2, <2>3, <2>4
<1>11. PushEach(h, new) = [flags |-> h.flags, head |-> PushHead(h, new), hdr |-> PushHdr(h, new)]
  BY PushParts
<1>12. PushAt(h, a, b, l) = PushEach(h, new)
  BY <1>8, <1>9, <1>10, <1>11
<1>13. QED
  BY <1>12 DEF a, new

\* The links of a block lead to two other blocks of its list.
LEMMA TwoNeighbours ==
  ASSUME NEW S \in SUBSET Addresses, NEW H, NEW hd, Linked(H, hd, S), NEW x \in S
  PROVE  /\ H[x].next # x /\ H[x].prev # x
         /\ H[x].next = H[x].prev => H[x].next = NULL
         /\ H[x].next # NULL => H[x].next \in S /\ H[H[x].next].prev = x
         /\ H[x].prev # NULL => H[x].prev \in S /\ H[H[x].prev].next = x
<1>1. /\ H[x].next # NULL => H[x].next \in S /\ H[H[x].next].prev = x
      /\ H[x].prev # NULL => H[x].prev \in S /\ H[H[x].prev].next = x
      /\ \A R \in SUBSET S : R # {} => \E y \in R : H[y].prev \notin R
  BY DEF Linked
<1>2. x # NULL
  BY NoAddress
<1>3. H[x].prev # x
  <2>1. {x} \in SUBSET S /\ {x} # {}
    OBVIOUS
  <2>2. PICK y \in {x} : H[y].prev \notin {x}
    BY <1>1, <2>1
  <2>3. QED
    BY <2>2
<1>4. H[x].next # x
  BY <1>1, <1>2, <1>3
<1>5. H[x].next = H[x].prev => H[x].next = NULL
  <2>1. SUFFICES ASSUME H[x].next = H[x].prev, H[x].next # NULL
                 PROVE  FALSE
    OBVIOUS
  <2> DEFINE y == H[x].next
  <2>2. y \in S /\ H[y].prev = x /\ H[x].prev = y
    BY <1>1, <2>1
  <2> HIDE DEF y
  <2>3. {x, y} \in SUBSET S /\ {x, y} # {}
    BY <2>2
  <2>4. PICK z \in {x, y} : H[z].prev \notin {x, y}
    BY <1>1, <2>3
  <2>5. QED
    BY <2>2, <2>4
<1>6. QED
  BY <1>1, <1>3, <1>4, <1>5

\* One block unlinked as the code does it (hmesh_tpool_pop ()).
LEMMA PopAtIs ==
  ASSUME NEW h \in HeapType, NEW S, Lists(h, S), NEW l \in Levels, NEW g \in S[l]
  PROVE  PopAt(h, g, l) = PopEach(h, Alone(l, g))
<1> DEFINE gone == Alone(l, g)
           fb == h.hdr[g]
<1>0. Shaped(h)
  BY HeapShape
<1>1. h = [flags |-> h.flags, head |-> [k \in Levels |-> h.head[k]],
           hdr |-> [x \in Addresses |-> h.hdr[x]]]
  BY <1>0 DEF Shaped
<1>2. DOMAIN gone = {l} /\ gone[l] = g
  BY DEF Alone
<1>3. S[l] \in SUBSET Addresses /\ Linked(h.hdr, h.head[l], S[l])
  BY DEF Lists
<1>4. /\ fb.next # g /\ fb.prev # g
      /\ fb.next = fb.prev => fb.next = NULL
  BY <1>3, TwoNeighbours
<1> HIDE DEF gone
<1>5. \A x : /\ After(h, gone, x) <=> fb.prev = x
             /\ Before(h, gone, x) <=> fb.next = x
             /\ (\E k \in DOMAIN gone : x = gone[k]) <=> x = g
  BY <1>2 DEF After, Before
<1>6. NextOf(h, gone, fb.prev) = fb.next /\ PrevOf(h, gone, fb.next) = fb.prev
  BY <1>2 DEF NextOf, PrevOf
<1> DEFINE K == [x \in Addresses |->
                   IF x = g THEN NoHeader
                   ELSE IF x = fb.prev THEN [h.hdr[x] EXCEPT !.next = fb.next]
                   ELSE IF x = fb.next THEN [h.hdr[x] EXCEPT !.prev = fb.prev] ELSE h.hdr[x]]
           first == [k \in Levels |-> IF k = l /\ fb.prev = NULL THEN fb.next ELSE h.head[k]]
<1>7. ASSUME NEW x \in Addresses
      PROVE  PopHdr(h, gone)[x] = K[x]
  <2>1. h.hdr[x] \in HeaderType
    BY DEF HeapType
  <2> DEFINE e == h.hdr[x]
             n == fb.next
             p == fb.prev
  <2>2. PopHdr(h, gone)[x] = IF x = g THEN NoHeader
                             ELSE [e EXCEPT !.next = IF p = x THEN n ELSE @,
                                            !.prev = IF n = x THEN p ELSE @]
    BY <1>5, <1>6 DEF PopHdr
  <2>3. K[x] = IF x = g THEN NoHeader ELSE IF x = p THEN [e EXCEPT !.next = n]
               ELSE IF x = n THEN [e EXCEPT !.prev = p] ELSE e
    OBVIOUS
  <2>4. ~(x = n /\ x = p)
    BY <1>4, NoAddress
  <2> HIDE DEF e, n, p, K
  <2>5. QED
    BY <2>1, <2>2, <2>3, <2>4 DEF HeaderType, e
<1>8. PopHdr(h, gone) = K
  <2>1. PopHdr(h, gone) = [x \in Addresses |-> PopHdr(h, gone)[x]]
    BY DEF PopHdr
  <2>2. QED
    BY <1>7, <2>1
<1>9. PopHead(h, gone) = first
  BY <1>2 DEF PopHead
<1>10. PopAt(h, g, l) = [flags |-> h.flags, head |-> first, hdr |-> K]
  <2>1. h.head = [k \in Levels |-> h.head[k]] /\ h.hdr = [x \in Addresses |-> h.hdr[x]]
    BY <1>1
  <2> DEFINE top == [h.head EXCEPT ![l] = IF fb.prev = NULL THEN fb.next ELSE @]
             links == [x \in DOMAIN h.hdr |->
                   IF x = g THEN NoHeader
                   ELSE IF x = fb.prev THEN [h.hdr[x] EXCEPT !.next = fb.next]
                   ELSE IF x = fb.next THEN [h.hdr[x] EXCEPT !.prev = fb.prev] ELSE h.hdr[x]]
  <2>2. top = first
    BY <2>1
  <2>3. links = K
    BY <2>1
  <2>4. PopAt(h, g, l) = [h EXCEPT !.head = top, !.hdr = links]
    BY DEF PopAt
  <2> HIDE DEF K, first, top, links
  <2>5. QED
    BY <1>1, <2>2, <2>3, <2>4
<1>11. PopEach(h, gone) = [flags |-> h.flags, head |-> PopHead(h, gone), hdr |-> PopHdr(h, gone)]
  BY <1>0, PopParts
<1>12. QED
  BY <1>8, <1>9, <1>10, <1>11 DEF gone

\* Pushing blocks and then one more at another level is pushing them all.
LEMMA PushMore ==
  ASSUME NEW h, Shaped(h), NEW new, NEW more, NEW l \in Levels \ DOMAIN new,
         DOMAIN new \subseteq Levels, DOMAIN more = DOMAIN new \cup {l},
         \A m \in DOMAIN new : more[m] = new[m],
         \A m, k \in Levels : m # k /\ h.head[m] = h.head[k] => h.head[m] = NULL,
         \A m \in DOMAIN more : /\ PlaceOf(more, m) \in Addresses
                                /\ \A k \in Levels : h.head[k] # PlaceOf(more, m),
         \A m, k \in DOMAIN more : m # k => PlaceOf(more, m) # PlaceOf(more, k)
  PROVE  PushEach(PushEach(h, new), Alone(l, more[l])) = PushEach(h, more)
<1> DEFINE one == Alone(l, more[l])
           a == PlaceOf(more, l)
           P == PushEach(h, new)
<1>1. DOMAIN one = {l} /\ one[l] = more[l]
  BY DEF Alone
<1>2. PlaceOf(one, l) = a /\ \A m \in DOMAIN new : PlaceOf(new, m) = PlaceOf(more, m)
  BY <1>1 DEF PlaceOf
<1>3. Shaped(P) /\ P.flags = h.flags /\ P.head = PushHead(h, new) /\ P.hdr = PushHdr(h, new)
  BY PushParts
<1>4. P.head[l] = h.head[l]
  BY <1>3 DEF PushHead
<1> HIDE DEF one, P
<1>5. ASSUME NEW x
      PROVE  /\ IsNew(one, x) <=> x = a
             /\ IsNew(more, x) <=> IsNew(new, x) \/ x = a
             /\ ~(IsNew(new, x) /\ x = a)
             /\ IsNew(new, x) => NewAt(new, x) \in DOMAIN new /\ NewAt(new, x) = NewAt(more, x)
             /\ NewAt(more, a) = l /\ NewAt(one, a) = l
             /\ IsHead(P, one, x) <=> x = h.head[l]
             /\ IsHead(h, more, x) <=> IsHead(h, new, x) \/ x = h.head[l]
             /\ HeadAt(P, one, h.head[l]) = l
  <2>1. (IsNew(one, x) <=> x = a) /\ (IsNew(more, x) <=> IsNew(new, x) \/ x = a)
    BY <1>1, <1>2 DEF IsNew
  <2>2. ~(IsNew(new, x) /\ x = a)
    BY <1>2 DEF IsNew
  <2>3. IsNew(new, x) => NewAt(new, x) \in DOMAIN new /\ NewAt(new, x) = NewAt(more, x)
    <3>1. SUFFICES ASSUME IsNew(new, x)
                   PROVE  NewAt(new, x) \in DOMAIN new /\ NewAt(new, x) = NewAt(more, x)
      OBVIOUS
    <3>2. PICK m \in DOMAIN new : x = PlaceOf(new, m)
      BY <3>1 DEF IsNew
    <3>3. NewAt(new, x) = m
      BY <1>2, <3>2 DEF NewAt
    <3>4. NewAt(more, x) = m
      BY <1>2, <3>2 DEF NewAt
    <3>5. QED
      BY <3>2, <3>3, <3>4
  <2>4. NewAt(more, a) = l
    BY DEF NewAt
  <2>5. NewAt(one, a) = l
    BY <1>1, <1>2 DEF NewAt
  <2>6. IsHead(P, one, x) <=> x = h.head[l]
    BY <1>1, <1>4 DEF IsHead
  <2>7. IsHead(h, more, x) <=> IsHead(h, new, x) \/ x = h.head[l]
    BY DEF IsHead
  <2>8. HeadAt(P, one, h.head[l]) = l
    BY <1>1, <1>4 DEF HeadAt
  <2>9. QED
    BY <2>1, <2>2, <2>3, <2>4, <2>5, <2>6, <2>7, <2>8
<1>6. ASSUME NEW x \in Addresses
      PROVE  PushHdr(P, one)[x] = PushHdr(h, more)[x]
  <2>1. PushHdr(P, one)[x] =
          IF x = a THEN [prev |-> NULL, next |-> h.head[l], blockID |-> more[l]]
          ELSE IF x = h.head[l] THEN [P.hdr[x] EXCEPT !.prev = a] ELSE P.hdr[x]
    BY <1>1, <1>2, <1>4, <1>5 DEF PushHdr
  <2>2. PushHdr(h, more)[x] =
          IF IsNew(more, x)
          THEN [prev |-> NULL, next |-> h.head[NewAt(more, x)], blockID |-> more[NewAt(more, x)]]
          ELSE IF IsHead(h, more, x)
          THEN [h.hdr[x] EXCEPT !.prev = PlaceOf(more, HeadAt(h, more, x))] ELSE h.hdr[x]
    BY DEF PushHdr
  <2>3. P.hdr[x] =
          IF IsNew(new, x)
          THEN [prev |-> NULL, next |-> h.head[NewAt(new, x)], blockID |-> new[NewAt(new, x)]]
          ELSE IF IsHead(h, new, x)
          THEN [h.hdr[x] EXCEPT !.prev = PlaceOf(new, HeadAt(h, new, x))] ELSE h.hdr[x]
    BY <1>3 DEF PushHdr
  <2>4. CASE x = a
    BY <1>5, <2>1, <2>2, <2>4
  <2>5. CASE IsNew(new, x)
    <3>1. x # a /\ x # h.head[l]
      BY <1>2, <1>5, <2>5 DEF IsNew
    <3>2. QED
      BY <1>5, <2>1, <2>2, <2>3, <2>5, <3>1
  <2>6. CASE ~IsNew(new, x) /\ x # a
    <3>1. CASE x = h.head[l]
      <4>1. ~IsHead(h, new, x) /\ x # NULL
        BY <3>1, NoAddress DEF IsHead
      <4>2. HeadAt(h, more, x) = l
        BY <3>1, <4>1 DEF HeadAt
      <4>3. QED
        BY <1>5, <2>1, <2>2, <2>3, <2>6, <3>1, <4>1, <4>2
    <3>2. CASE x # h.head[l] /\ IsHead(h, new, x)
      <4>1. PICK m \in DOMAIN new : x = h.head[m]
        BY <3>2 DEF IsHead
      <4>2. \A k \in DOMAIN more : x = h.head[k] => k = m
        BY <4>1, NoAddress
      <4>3. HeadAt(h, new, x) = m
        BY <4>1, <4>2 DEF HeadAt
      <4>4. HeadAt(h, more, x) = m
        BY <4>1, <4>2 DEF HeadAt
      <4>5. QED
        BY <1>2, <1>5, <2>1, <2>2, <2>3, <2>6, <3>2, <4>1, <4>3, <4>4
    <3>3. CASE x # h.head[l] /\ ~IsHead(h, new, x)
      BY <1>5, <2>1, <2>2, <2>3, <2>6, <3>3
    <3>4. QED
      BY <3>1, <3>2, <3>3
  <2>7. QED
    BY <2>4, <2>5, <2>6
<1>7. PushHdr(P, one) = PushHdr(h, more)
  <2> DEFINE f == PushHdr(P, one)
             e == PushHdr(h, more)
  <2>1. f = [x \in Addresses |-> f[x]] /\ e = [x \in Addresses |-> e[x]]
    BY DEF PushHdr
  <2> HIDE DEF f, e
  <2>2. \A x \in Addresses : f[x] = e[x]
    BY <1>6 DEF f, e
  <2>3. f = e
    BY <2>1, <2>2
  <2>4. QED
    BY <2>3 DEF f, e
<1>8. PushHead(P, one) = PushHead(h, more)
  <2> DEFINE f == PushHead(P, one)
             e == PushHead(h, more)
  <2>1. f = [x \in Levels |-> f[x]] /\ e = [x \in Levels |-> e[x]]
    BY DEF PushHead
  <2>2. ASSUME NEW m \in Levels
        PROVE  f[m] = e[m]
    BY <1>1, <1>2, <1>3 DEF PushHead
  <2> HIDE DEF f, e
  <2>3. f = e
    BY <2>1, <2>2
  <2>4. QED
    BY <2>3 DEF f, e
<1>9. PushEach(P, one) = [flags |-> P.flags, head |-> PushHead(P, one), hdr |-> PushHdr(P, one)]
  BY <1>3, PushParts
<1>10. PushEach(h, more) = [flags |-> h.flags, head |-> PushHead(h, more), hdr |-> PushHdr(h, more)]
  BY PushParts
<1>11. PushEach(P, one) = PushEach(h, more)
  BY <1>3, <1>7, <1>8, <1>9, <1>10
<1>12. QED
  BY <1>11 DEF P, one

\* Unlinking blocks and then one more from another list is unlinking them all.
PoppedToo(h, gone, l, more) == PopEach(PopEach(h, gone), Alone(l, more[l])) = PopEach(h, more)

\* It is, for blocks that are in their lists.
LEMMA PopMore ==
  ASSUME NEW h \in HeapType, NEW S, Lists(h, S), NEW gone, NEW more, NEW l \in Levels \ DOMAIN gone,
         DOMAIN gone \subseteq Levels, DOMAIN more = DOMAIN gone \cup {l},
         \A m \in DOMAIN gone : more[m] = gone[m],
         \A m \in DOMAIN more : more[m] \in S[m]
  PROVE  PoppedToo(h, gone, l, more)
<1> DEFINE g == more[l]
           one == Alone(l, g)
           P == PopEach(h, gone)
           fb == h.hdr[g]
<1>1. DOMAIN one = {l} /\ one[l] = g
  BY DEF Alone
<1>2. Shaped(h)
  BY HeapShape
<1>3. Shaped(P) /\ P.flags = h.flags /\ P.head = PopHead(h, gone) /\ P.hdr = PopHdr(h, gone)
  BY <1>2, PopParts
<1>4. ASSUME NEW m \in DOMAIN more
      PROVE  /\ m \in Levels /\ more[m] \in S[m] /\ S[m] \in SUBSET Addresses
             /\ h.hdr[more[m]].next # NULL => h.hdr[more[m]].next \in S[m]
             /\ h.hdr[more[m]].prev # NULL => h.hdr[more[m]].prev \in S[m]
  BY DEF Lists, Linked
<1>5. \A m, k \in DOMAIN more : m # k => S[m] \cap S[k] = {}
  BY <1>4 DEF Lists
<1> HIDE DEF one, P
<1>6. ASSUME NEW x \in S[l]
      PROVE  /\ x \in Addresses /\ x # NULL
             /\ ~After(h, gone, x) /\ ~Before(h, gone, x) /\ \A m \in DOMAIN gone : x # gone[m]
  BY <1>4, <1>5, NoAddress DEF After, Before
<1>7. P.hdr[g] = fb
  <2>1. g \in S[l] /\ g \in Addresses /\ fb \in HeaderType
    BY <1>4 DEF HeapType
  <2>2. PopHdr(h, gone)[g] = [fb EXCEPT !.next = @, !.prev = @]
    BY <1>6, <2>1 DEF PopHdr
  <2>3. QED
    BY <1>3, <2>1, <2>2 DEF HeaderType
<1>8. g \in S[l] /\ (fb.next # NULL => fb.next \in S[l]) /\ (fb.prev # NULL => fb.prev \in S[l])
  BY <1>4
<1>9. ASSUME NEW x \in Addresses
      PROVE  /\ After(P, one, x) <=> fb.prev = x
             /\ Before(P, one, x) <=> fb.next = x
             /\ (\E k \in DOMAIN one : x = one[k]) <=> x = g
             /\ NextOf(P, one, fb.prev) = fb.next /\ PrevOf(P, one, fb.next) = fb.prev
             /\ After(h, more, x) <=> After(h, gone, x) \/ fb.prev = x
             /\ Before(h, more, x) <=> Before(h, gone, x) \/ fb.next = x
             /\ (\E k \in DOMAIN more : x = more[k]) <=> (\E k \in DOMAIN gone : x = gone[k]) \/ x = g
  <2>1. /\ After(P, one, x) <=> fb.prev = x
        /\ Before(P, one, x) <=> fb.next = x
        /\ (\E k \in DOMAIN one : x = one[k]) <=> x = g
    <3>1. DOMAIN one = {l} /\ one[l] = g /\ P.hdr[one[l]] = fb
      BY <1>1, <1>7
    <3> HIDE DEF one, P, fb, g
    <3>2. (\E k \in DOMAIN one : x = one[k]) <=> x = g
      BY <3>1
    <3>3. After(P, one, x) <=> fb.prev = x
      BY <3>1 DEF After
    <3>4. Before(P, one, x) <=> fb.next = x
      BY <3>1 DEF Before
    <3>5. QED
      BY <3>2, <3>3, <3>4
  <2>2. NextOf(P, one, fb.prev) = fb.next /\ PrevOf(P, one, fb.next) = fb.prev
    BY <1>1, <1>7 DEF NextOf, PrevOf
  <2>3. /\ After(h, more, x) <=> After(h, gone, x) \/ fb.prev = x
        /\ Before(h, more, x) <=> Before(h, gone, x) \/ fb.next = x
        /\ (\E k \in DOMAIN more : x = more[k]) <=> (\E k \in DOMAIN gone : x = gone[k]) \/ x = g
    BY DEF After, Before
  <2>4. QED
    BY <2>1, <2>2, <2>3
<1>10. ASSUME NEW x \in Addresses
       PROVE  /\ After(h, gone, x) => NextOf(h, more, x) = NextOf(h, gone, x) /\ fb.prev # x
              /\ Before(h, gone, x) => PrevOf(h, more, x) = PrevOf(h, gone, x) /\ fb.next # x
              /\ fb.prev = x => NextOf(h, more, x) = fb.next
              /\ fb.next = x => PrevOf(h, more, x) = fb.prev
  <2>1. x # NULL
    BY NoAddress
  <2>2. ASSUME NEW m \in DOMAIN more, NEW k \in DOMAIN more, m # k
        PROVE  /\ ~(h.hdr[more[m]].prev = x /\ h.hdr[more[k]].prev = x)
               /\ ~(h.hdr[more[m]].next = x /\ h.hdr[more[k]].next = x)
    BY <1>4, <1>5, <2>1, <2>2
  <2>3. ASSUME After(h, gone, x)
        PROVE  NextOf(h, more, x) = NextOf(h, gone, x) /\ fb.prev # x
    BY <2>2, <2>3 DEF After, NextOf
  <2>4. ASSUME Before(h, gone, x)
        PROVE  PrevOf(h, more, x) = PrevOf(h, gone, x) /\ fb.next # x
    <3>1. PICK m \in DOMAIN gone : h.hdr[gone[m]].next = x
      BY <2>4 DEF Before
    <3>2. m \in DOMAIN more /\ h.hdr[more[m]].next = x /\ m # l /\ more[m] = gone[m]
      BY <3>1
    <3>3. PrevOf(h, gone, x) = h.hdr[gone[m]].prev
      <4>1. \A k \in DOMAIN gone : h.hdr[gone[k]].next = x => k = m
        BY <2>2, <3>2
      <4>2. (CHOOSE k \in DOMAIN gone : h.hdr[gone[k]].next = x) = m
        BY <3>1, <4>1
      <4>3. QED
        BY <4>2 DEF PrevOf
    <3>4. PrevOf(h, more, x) = h.hdr[more[m]].prev
      BY <2>2, <3>2 DEF PrevOf
    <3>5. fb.next # x
      BY <2>2, <3>2
    <3>6. QED
      BY <3>2, <3>3, <3>4, <3>5
  <2>5. fb.prev = x => NextOf(h, more, x) = fb.next
    <3>1. SUFFICES ASSUME fb.prev = x
                   PROVE  NextOf(h, more, x) = fb.next
      OBVIOUS
    <3>2. \A k \in DOMAIN more : h.hdr[more[k]].prev = x => k = l
      BY <2>2, <3>1
    <3>3. (CHOOSE k \in DOMAIN more : h.hdr[more[k]].prev = x) = l
      BY <3>1, <3>2
    <3>4. QED
      BY <3>3 DEF NextOf
  <2>6. fb.next = x => PrevOf(h, more, x) = fb.prev
    <3>1. SUFFICES ASSUME fb.next = x
                   PROVE  PrevOf(h, more, x) = fb.prev
      OBVIOUS
    <3>2. \A k \in DOMAIN more : h.hdr[more[k]].next = x => k = l
      BY <2>2, <3>1
    <3>3. (CHOOSE k \in DOMAIN more : h.hdr[more[k]].next = x) = l
      BY <3>1, <3>2
    <3>4. QED
      BY <3>3 DEF PrevOf
  <2>7. QED
    BY <2>3, <2>4, <2>5, <2>6
<1>11. ASSUME NEW x \in Addresses
       PROVE  PopHdr(P, one)[x] = PopHdr(h, more)[x]
  <2> DEFINE e == h.hdr[x]
             n == fb.next
             p == fb.prev
             y == P.hdr[x]
             og == \E k \in DOMAIN gone : x = gone[k]
             A == After(h, gone, x)
             B == Before(h, gone, x)
             N0 == NextOf(h, gone, x)
             P0 == PrevOf(h, gone, x)
  <2>1. e \in HeaderType
    BY DEF HeapType
  <2>2. PopHdr(P, one)[x] = IF x = g THEN NoHeader
                            ELSE [y EXCEPT !.next = IF p = x THEN n ELSE @,
                                           !.prev = IF n = x THEN p ELSE @]
    BY <1>9 DEF PopHdr
  <2>3. y = IF og THEN NoHeader ELSE [e EXCEPT !.next = IF A THEN N0 ELSE @,
                                               !.prev = IF B THEN P0 ELSE @]
    BY <1>3 DEF PopHdr
  <2>4. PopHdr(h, more)[x] =
          IF og \/ x = g THEN NoHeader
          ELSE [e EXCEPT !.next = IF A \/ p = x THEN NextOf(h, more, x) ELSE @,
                         !.prev = IF B \/ n = x THEN PrevOf(h, more, x) ELSE @]
    BY <1>9 DEF PopHdr
  <2>5. /\ A => NextOf(h, more, x) = N0 /\ p # x
        /\ B => PrevOf(h, more, x) = P0 /\ n # x
        /\ p = x => NextOf(h, more, x) = n
        /\ n = x => PrevOf(h, more, x) = p
    BY <1>10
  <2>6. og => x # g /\ p # x /\ n # x
    BY <1>6, <1>8, NoAddress
  <2> HIDE DEF e, n, p, y, og, A, B, N0, P0, g
  <2>7. CASE og \/ x = g
    BY <2>2, <2>3, <2>4, <2>6, <2>7 DEF NoHeader
  <2>8. CASE ~og /\ x # g
    <3> DEFINE n1 == IF A THEN N0 ELSE e.next
               p1 == IF B THEN P0 ELSE e.prev
               n2 == IF A \/ p = x THEN NextOf(h, more, x) ELSE e.next
               p2 == IF B \/ n = x THEN PrevOf(h, more, x) ELSE e.prev
    <3>1. y = [e EXCEPT !.next = n1, !.prev = p1]
      BY <2>3, <2>8
    <3>2. PopHdr(h, more)[x] = [e EXCEPT !.next = n2, !.prev = p2]
      BY <2>4, <2>8
    <3>3. n2 = (IF p = x THEN n ELSE n1) /\ p2 = (IF n = x THEN p ELSE p1)
      BY <2>5
    <3> HIDE DEF n1, n2, p1, p2
    <3>4. y.next = n1 /\ y.prev = p1
      BY <2>1, <3>1 DEF HeaderType
    <3>5. PopHdr(P, one)[x] = [y EXCEPT !.next = n2, !.prev = p2]
      BY <2>2, <2>8, <3>3, <3>4
    <3>6. QED
      BY <2>1, <3>1, <3>2, <3>5 DEF HeaderType
  <2>9. QED
    BY <2>7, <2>8
<1>12. PopHdr(P, one) = PopHdr(h, more)
  <2> DEFINE f == PopHdr(P, one)
             e == PopHdr(h, more)
  <2>1. f = [x \in Addresses |-> f[x]] /\ e = [x \in Addresses |-> e[x]]
    BY DEF PopHdr
  <2> HIDE DEF f, e
  <2>2. \A x \in Addresses : f[x] = e[x]
    BY <1>11 DEF f, e
  <2>3. f = e
    BY <2>1, <2>2
  <2>4. QED
    BY <2>3 DEF f, e
<1>13. PopHead(P, one) = PopHead(h, more)
  <2> DEFINE f == PopHead(P, one)
             e == PopHead(h, more)
  <2>1. f = [x \in Levels |-> f[x]] /\ e = [x \in Levels |-> e[x]]
    BY DEF PopHead
  <2>2. ASSUME NEW m \in Levels
        PROVE  f[m] = e[m]
    BY <1>1, <1>3, <1>7 DEF PopHead
  <2> HIDE DEF f, e
  <2>3. f = e
    BY <2>1, <2>2
  <2>4. QED
    BY <2>3 DEF f, e
<1>14. PopEach(P, one) = [flags |-> P.flags, head |-> PopHead(P, one), hdr |-> PopHdr(P, one)]
  BY <1>3, PopParts
<1>15. PopEach(h, more) = [flags |-> h.flags, head |-> PopHead(h, more), hdr |-> PopHdr(h, more)]
  BY <1>2, PopParts
<1>16. PopEach(P, one) = PopEach(h, more)
  BY <1>3, <1>12, <1>13, <1>14, <1>15
<1>17. QED
  BY <1>16 DEF P, one, PoppedToo

\* Going down to the left as the code does it (hmesh_tpool_child ()).
LEMMA NextLeft ==
  ASSUME NEW j \in Nat, NEW a \in Levels, NEW i \in At(a), NEW l \in a + 1 .. Depth
  PROVE  /\ l \in Levels \ {0} /\ l - 1 \in a .. Depth
         /\ Child(Left(N(j, a, i), a, l - 1), 0) = Left(N(j, a, i), a, l)
         /\ Child(Left(N(j, a, i), a, l - 1), 1) = Left(N(j, a, i), a, l) + 1
<1> DEFINE q == i * Width(a)
           n0 == N(j, a, i)
           x == Up(l - 1, q)
           y == Up(l, q)
           w == 2 ^ (l - 1)
<1>1. /\ a \in Nat /\ Depth \in Nat /\ l \in Levels \ {0} /\ l - 1 \in a .. Depth
      /\ l - 1 \in Levels /\ l \in a .. Depth /\ l > a /\ l - 1 \in Nat
  BY Constants DEF Levels
<1>2. q \in InChunk /\ \A k \in 0 .. Depth - a : Up(a + k, q) = i * 2 ^ k
  BY FirstPage
<1>3. x \in At(l - 1) /\ y \in At(l)
  BY <1>1, <1>2, UpAt
<1>4. y = 2 * x
  <2> DEFINE k == l - 1 - a
             p == 2 ^ k
  <2>1. k \in Nat /\ k \in 0 .. Depth - a /\ k + 1 \in 0 .. Depth - a
        /\ a + k = l - 1 /\ a + (k + 1) = l
    BY <1>1
  <2>2. p \in Nat /\ 2 ^ (k + 1) = 2 * p
    BY <2>1, TwoToThe
  <2>3. x = i * p
    BY <1>2, <2>1
  <2>4. y = i * (2 * p)
    BY <1>2, <2>1, <2>2
  <2>5. i \in Nat
    BY <1>1, Widths DEF At
  <2> HIDE DEF p, k, x, y
  <2>6. QED
    BY <2>2, <2>3, <2>4, <2>5
<1>5. Left(n0, a, l - 1) = N(j, l - 1, x) /\ Left(n0, a, l) = N(j, l, y)
  BY <1>1, LeftIs DEF Over
<1>6. w \in Nat /\ 2 ^ l = 2 * w
  <2> DEFINE k == l - 1
  <2>1. k \in Nat /\ k + 1 = l
    BY <1>1
  <2> HIDE DEF k
  <2>2. 2 ^ k \in Nat /\ 2 ^ (k + 1) = 2 * 2 ^ k
    BY <2>1, TwoToThe
  <2>3. QED
    BY <2>1, <2>2 DEF k
<1>7. Local(N(j, l - 1, x)) = w - 1 + x /\ Base(N(j, l - 1, x)) = j * Slots
  BY <1>1, <1>3, NumberIs
<1>8. N(j, l, y) = j * Slots + (2 * w - 1 + y)
  BY <1>6 DEF N
<1>9. Slots \in Nat /\ x \in Nat /\ j * Slots \in Nat
  BY <1>1, <1>3, SlotsAre, Widths DEF At
<1> DEFINE s == j * Slots
<1> HIDE DEF w, x, y, s, q, n0
<1>10. /\ Child(N(j, l - 1, x), 0) = s + 2 * (w - 1 + x) + 1
       /\ Child(N(j, l - 1, x), 1) = s + 2 * (w - 1 + x) + 1 + 1
  BY <1>6, <1>7, <1>9 DEF Child, s
<1>11. Child(N(j, l - 1, x), 0) = N(j, l, y) /\ Child(N(j, l - 1, x), 1) = N(j, l, y) + 1
  BY <1>4, <1>6, <1>8, <1>9, <1>10 DEF s
<1>12. QED
  BY <1>1, <1>5, <1>11 DEF n0

\* The flags when the code has come down to level l.
Marked(F, n0, a, l) == [SplitFlags(F, n0, a, l) EXCEPT ![Left(n0, a, l)] = F[Left(n0, a, l)]]

\* At the level of the block divided nothing is marked yet.
LEMMA MarkedFirst ==
  ASSUME NEW c \in 0 .. MaxChunks, NEW j \in 0 .. c - 1, NEW a \in Levels, NEW i \in At(a),
         NEW F \in [Nodes -> FlagType]
  PROVE  Marked(F, N(j, a, i), a, a) = F
<1> DEFINE q == i * Width(a)
           n0 == N(j, a, i)
           G == SplitFlags(F, n0, a, a)
           x == Left(n0, a, a)
<1>1. a \in Nat /\ a <= a /\ j \in Nat /\ q \in InChunk /\ a \in a .. Depth
  BY FirstPage, Constants DEF Levels
<1>2. Divided(G, F, j, q, a, a)
  BY <1>1, SplitDivides
<1>3. x = Over(j, a, q)
  BY <1>1, LeftIs
<1> HIDE DEF q, n0, G, x
<1>4. \A n \in Path(j, q, a, a) : n = x
  BY <1>1, <1>3 DEF Path
<1>5. G \in [Nodes -> FlagType] /\ \A n \in Nodes : n # x => G[n] = F[n]
  BY <1>2, <1>4 DEF Divided
<1>6. [G EXCEPT ![x] = F[x]] = F
  BY <1>5
<1>7. QED
  BY <1>6 DEF Marked, G, x, n0

\* The two marks of one iteration: the right half and the node left behind.
Forked(M, left, n, l) == [[M EXCEPT ![left + 1] = Flag(l, TRUE, FALSE)] EXCEPT ![n] = Flag(l - 1, FALSE, TRUE)]

\* One level further down two more nodes are marked.
LEMMA MarkedNext ==
  ASSUME NEW c \in 0 .. MaxChunks, NEW j \in 0 .. c - 1, NEW a \in Levels, NEW i \in At(a),
         NEW F \in [Nodes -> FlagType], NEW l \in a + 1 .. Depth
  PROVE  Marked(F, N(j, a, i), a, l) =
           Forked(Marked(F, N(j, a, i), a, l - 1), Left(N(j, a, i), a, l), Left(N(j, a, i), a, l - 1), l)
<1> DEFINE q == i * Width(a)
           n0 == N(j, a, i)
           k == l - 1
           G == SplitFlags(F, n0, a, l)
           E == SplitFlags(F, n0, a, k)
           x == Left(n0, a, l)
           y == Left(n0, a, k)
           z == x + 1
           L == Marked(F, n0, a, l)
           K == Marked(F, n0, a, k)
           R == [[K EXCEPT ![z] = Flag(l, TRUE, FALSE)] EXCEPT ![y] = Flag(k, FALSE, TRUE)]
<1>1. /\ a \in Nat /\ j \in Nat /\ q \in InChunk /\ l \in a .. Depth /\ k \in a .. Depth
      /\ l \in Levels \ {0} /\ k \in Levels /\ a <= l /\ a <= k /\ l = k + 1 /\ l > a
      /\ k \in Nat /\ l \in Nat
  BY FirstPage, Constants DEF Levels
<1>2. Divided(G, F, j, q, a, l) /\ Divided(E, F, j, q, a, k)
  BY <1>1, SplitDivides
<1>3. x = Over(j, l, q) /\ z = N(j, l, Twin(Up(l, q))) /\ y = Over(j, k, q)
  BY <1>1, LeftIs
<1>4. /\ \A m \in a .. l : m \in Levels /\ Up(m, q) \in At(m) /\ Over(j, m, q) \in Nodes
      /\ \A m \in a + 1 .. l : /\ m \in Levels \ {0} /\ Twin(Up(m, q)) \in At(m)
                               /\ N(j, m, Twin(Up(m, q))) \in Nodes
  BY <1>1, PathNodes
<1>5. L = [G EXCEPT ![x] = F[x]] /\ K = [E EXCEPT ![y] = F[y]]
  BY DEF Marked
<1>6. Twin(Up(l, q)) # Up(l, q)
  BY <1>1, <1>4, Twins
<1> HIDE DEF q, n0, k, G, E, x, y, z, L, K
<1>7. x \in Nodes /\ y \in Nodes /\ z \in Nodes
  BY <1>1, <1>3, <1>4
<1>8. x # y /\ x # z /\ y # z
  BY <1>1, <1>3, <1>4, <1>6, OneNumber DEF Over
<1>9. x \notin Path(j, q, a, k) /\ z \notin Path(j, q, a, k)
  BY <1>1, <1>3, <1>4, OnPath DEF Over
<1>10. ASSUME NEW n \in Path(j, q, a, l)
       PROVE  \/ n = x \/ n = y \/ n = z
              \/ \E m \in a .. k - 1 : n = Over(j, m, q)
              \/ \E m \in a + 1 .. k : n = N(j, m, Twin(Up(m, q)))
  BY <1>1, <1>3 DEF Path
<1>11. /\ G \in [Nodes -> FlagType] /\ E \in [Nodes -> FlagType]
       /\ \A n \in Nodes \ Path(j, q, a, l) : G[n] = F[n]
       /\ \A n \in Nodes \ Path(j, q, a, k) : E[n] = F[n]
       /\ \A m \in a .. l - 1 : G[Over(j, m, q)] = Flag(m, FALSE, TRUE)
       /\ \A m \in a .. k - 1 : E[Over(j, m, q)] = Flag(m, FALSE, TRUE)
       /\ \A m \in a + 1 .. l : G[N(j, m, Twin(Up(m, q)))] = Flag(m, TRUE, FALSE)
       /\ \A m \in a + 1 .. k : E[N(j, m, Twin(Up(m, q)))] = Flag(m, TRUE, FALSE)
  BY <1>2 DEF Divided
<1>12. L = [n \in Nodes |-> L[n]] /\ R = [n \in Nodes |-> R[n]]
  BY <1>5, <1>11
<1>13. ASSUME NEW n \in Nodes
       PROVE  L[n] = R[n]
  <2>1. L[n] = IF n = x THEN F[x] ELSE G[n]
    BY <1>5, <1>11
  <2>2. R[n] = IF n = y THEN Flag(k, FALSE, TRUE) ELSE IF n = z THEN Flag(l, TRUE, FALSE) ELSE E[n]
    BY <1>5, <1>11
  <2>3. CASE n = x
    BY <1>8, <1>9, <1>11, <2>1, <2>2, <2>3
  <2>4. CASE n = y
    <3>1. k \in a .. l - 1
      BY <1>1
    <3>2. G[y] = Flag(k, FALSE, TRUE)
      BY <1>3, <1>11, <3>1
    <3>3. QED
      BY <1>8, <2>1, <2>2, <2>4, <3>2
  <2>5. CASE n = z
    <3>1. l \in a + 1 .. l
      BY <1>1
    <3>2. G[z] = Flag(l, TRUE, FALSE)
      BY <1>3, <1>11, <3>1
    <3>3. QED
      BY <1>8, <2>1, <2>2, <2>5, <3>2
  <2>6. CASE n # x /\ n # y /\ n # z
    <3>1. CASE n \notin Path(j, q, a, l)
      BY <1>1, <1>11, <2>1, <2>2, <2>6, <3>1 DEF Path
    <3>2. CASE \E m \in a .. k - 1 : n = Over(j, m, q)
      <4>1. PICK m \in a .. k - 1 : n = Over(j, m, q)
        BY <3>2
      <4>2. m \in a .. l - 1
        BY <1>1
      <4>3. QED
        BY <1>11, <2>1, <2>2, <2>6, <4>1, <4>2
    <3>3. CASE \E m \in a + 1 .. k : n = N(j, m, Twin(Up(m, q)))
      <4>1. PICK m \in a + 1 .. k : n = N(j, m, Twin(Up(m, q)))
        BY <3>3
      <4>2. m \in a + 1 .. l
        BY <1>1
      <4>3. QED
        BY <1>11, <2>1, <2>2, <2>6, <4>1, <4>2
    <3>4. QED
      BY <1>10, <2>6, <3>1, <3>2, <3>3
  <2>7. QED
    BY <2>3, <2>4, <2>5, <2>6
<1>14. L = R
  BY <1>12, <1>13
<1>15. QED
  BY <1>14 DEF L, K, x, y, z, k, n0, Forked

\* At the last level the block given out is marked, and that is all SplitFlags does.
LEMMA MarkedLast ==
  ASSUME NEW c \in 0 .. MaxChunks, NEW j \in 0 .. c - 1, NEW a \in Levels, NEW i \in At(a),
         NEW F \in [Nodes -> FlagType], NEW d \in Levels, a <= d
  PROVE  [Marked(F, N(j, a, i), a, d) EXCEPT ![Left(N(j, a, i), a, d)] = InUseFlag(d)] =
           SplitFlags(F, N(j, a, i), a, d)
<1> DEFINE n0 == N(j, a, i)
           G == SplitFlags(F, n0, a, d)
           x == Left(n0, a, d)
<1>1. G \in [Nodes -> FlagType]
  BY SplitDivides DEF Divided
<1>2. x \in Nodes => G[x] = InUseFlag(d)
  BY DEF SplitFlags
<1> HIDE DEF G, x
<1>3. [[G EXCEPT ![x] = F[x]] EXCEPT ![x] = InUseFlag(d)] = G
  BY <1>1, <1>2
<1>4. QED
  BY <1>3 DEF Marked, G, x

\* The division is any sequence of values that its iterations go through.
Ended(s, t, d) == [heap |-> [s.heap EXCEPT !.flags[t][s.node] = InUseFlag(d)], block |-> <<t, s.node>>]

\* f goes through the iterations of a division.
Iterates(f, h, t, n, a, d) ==
  /\ f = [l \in a .. d |-> f[l]] /\ f[a] = [heap |-> h, node |-> n]
  /\ \A l \in a + 1 .. d : f[l] = Halve(f[l - 1], t, l)

\* Whatever goes through its iterations ends as the division ends.
LEMMA DivideFromIs ==
  ASSUME NEW h, NEW t, NEW n, NEW a \in Int, NEW d \in Int, a <= d, NEW f,
         Iterates(f, h, t, n, a, d)
  PROVE  DivideFrom(h, t, n, a, d) = Ended(f[d], t, d)
<1>0. /\ f = [l \in a .. d |-> f[l]] /\ f[a] = [heap |-> h, node |-> n]
      /\ \A l \in a + 1 .. d : f[l] = Halve(f[l - 1], t, l)
  BY DEF Iterates
<1> DEFINE Body(g) == [l \in a .. d |-> IF l = a THEN [heap |-> h, node |-> n]
                                       ELSE Halve(g[l - 1], t, l)]
           at == CHOOSE g : g = Body(g)
<1>1. f = Body(f)
  <2>1. ASSUME NEW l \in a .. d
        PROVE  f[l] = Body(f)[l]
    <3>1. CASE l = a
      BY <1>0, <3>1
    <3>2. CASE l # a
      <4>1. l \in a + 1 .. d
        BY <3>2
      <4>2. QED
        BY <1>0, <3>2, <4>1
    <3>3. QED
      BY <3>1, <3>2
  <2>2. f = [l \in a .. d |-> Body(f)[l]]
    BY <1>0, <2>1
  <2>3. QED
    BY <2>2
<1>2. at = Body(at)
  BY <1>1
<1>3. DivideFrom(h, t, n, a, d) =
        [heap |-> [at[d].heap EXCEPT !.flags[t][at[d].node] = InUseFlag(d)], block |-> <<t, at[d].node>>]
  BY DEF DivideFrom
<1> HIDE DEF at
<1>4. at[a] = f[a]
  BY <1>0, <1>2
<1>5. \A l \in a .. d - 1 : at[l] = f[l] => at[l + 1] = f[l + 1]
  <2>1. SUFFICES ASSUME NEW l \in a .. d - 1, at[l] = f[l]
                 PROVE  at[l + 1] = f[l + 1]
    OBVIOUS
  <2> DEFINE k == l + 1
  <2>2. k \in a + 1 .. d /\ k - 1 = l /\ k \in a .. d /\ k # a
    OBVIOUS
  <2> HIDE DEF k
  <2>3. at[k] = Halve(at[k - 1], t, k)
    BY <1>2, <2>2
  <2>4. f[k] = Halve(f[k - 1], t, k)
    BY <1>0, <2>2
  <2>5. at[k] = f[k]
    BY <2>1, <2>2, <2>3, <2>4
  <2>6. QED
    BY <2>5 DEF k
<1> HIDE DEF Body
<1>6. \A l \in a .. d : at[l] = f[l]
  <2>1. Alike(at, f, a, d)
    BY <1>4, <1>5 DEF Alike
  <2>2. QED
    BY <2>1, Stepwise
<1>7. at[d] = f[d]
  BY <1>6
<1>8. QED
  BY <1>3, <1>7 DEF Ended

\* One iteration, in the terms of the closed form.
LEMMA HalveIs ==
  ASSUME NEW g, Shaped(g), NEW t, NEW n, NEW l \in Levels
  PROVE  Halve([heap |-> g, node |-> n], t, l) =
           [heap |-> WithFlagsOf(PushEach(g, Alone(l, <<t, Child(n, 1)>>)),
                       [g.flags EXCEPT ![t] = [[g.flags[t] EXCEPT ![Child(n, 1)] = Flag(l, TRUE, FALSE)]
                                                  EXCEPT ![n] = Flag(l - 1, FALSE, TRUE)]]),
            node |-> Child(n, 0)]
<1> DEFINE s == [heap |-> g, node |-> n]
           right == Child(n, 1)
           b == <<t, right>>
           v == Flag(l, TRUE, FALSE)
           w == Flag(l - 1, FALSE, TRUE)
           FL == g.flags
           F1 == [FL EXCEPT ![t] = [@ EXCEPT ![right] = v]]
           F2 == [FL EXCEPT ![t] = [[FL[t] EXCEPT ![right] = v] EXCEPT ![n] = w]]
           marked == [g EXCEPT !.flags[t][right] = v]
           pushed == PushAt(marked, Address(b, l), b, l)
           P == PushEach(g, Alone(l, b))
<1>1. g = [flags |-> g.flags, head |-> [k \in Levels |-> g.head[k]],
           hdr |-> [x \in Addresses |-> g.hdr[x]]]
  BY DEF Shaped
<1>2. marked = WithFlagsOf(g, F1)
  BY <1>1 DEF WithFlagsOf
<1>3. Shaped(marked) /\ PushEach(marked, Alone(l, b)) = WithFlagsOf(P, F1)
  BY <1>2, FlagsApart DEF P
<1>4. pushed = WithFlagsOf(P, F1)
  BY <1>3, PushAtIs
<1>5. [pushed EXCEPT !.flags[t][n] = w] = WithFlagsOf(P, F2)
  <2> DEFINE x == PushHead(g, Alone(l, b))
             y == PushHdr(g, Alone(l, b))
  <2>1. P = [flags |-> FL, head |-> x, hdr |-> y]
    BY PushParts
  <2> HIDE DEF x, y, b, P, pushed
  <2>2. pushed = [flags |-> F1, head |-> x, hdr |-> y]
    BY <1>4, <2>1 DEF WithFlagsOf
  <2>3. [pushed EXCEPT !.flags[t][n] = w] = [flags |-> [F1 EXCEPT ![t] = [@ EXCEPT ![n] = w]], head |-> x, hdr |-> y]
    <3> HIDE DEF F1, w
    <3>1. QED
      BY <2>2
  <2>4. [F1 EXCEPT ![t] = [@ EXCEPT ![n] = w]] = F2
    OBVIOUS
  <2>5. WithFlagsOf(P, F2) = [flags |-> F2, head |-> x, hdr |-> y]
    <3> HIDE DEF F2
    <3>1. QED
      BY <2>1 DEF WithFlagsOf
  <2>6. QED
    BY <2>3, <2>4, <2>5
<1>6. Halve(s, t, l) = [heap |-> [pushed EXCEPT !.flags[t][n] = w], node |-> Child(n, 0)]
  BY DEF Halve
<1>7. QED
  BY <1>5, <1>6

\* The right halves below a block that is out of its list lie at different addresses,
\* and no list begins at one of them.
Splittable(h, C, t, j, a, i) ==
  /\ h \in HeapType /\ Forest(h.flags, C) /\ t \in Trees /\ j \in 0 .. C[t] - 1
  /\ a \in Levels /\ i \in At(a) /\ h.flags[t][N(j, a, i)].free
  /\ Lists(h, Without(h.flags, C, Alone(a, Block(t, j, a, i))))

\* Their addresses, for all levels at once.
LEMMA RightsApart ==
  ASSUME NEW h, NEW C, NEW t, NEW j, NEW a, NEW i, Splittable(h, C, t, j, a, i)
  PROVE  LET q == i * Width(a)
             At1(m) == Spot(t, j, m, Twin(Up(m, q)))
         IN  /\ \A m, k \in Levels : m # k /\ h.head[m] = h.head[k] => h.head[m] = NULL
             /\ \A m \in a + 1 .. Depth : /\ At1(m) \in Addresses
                                          /\ \A k \in Levels : h.head[k] # At1(m)
             /\ \A m, k \in a + 1 .. Depth : m # k => At1(m) # At1(k)
<1> DEFINE q == i * Width(a)
           e(m) == Twin(Up(m, q))
           At1(m) == Spot(t, j, m, e(m))
           c == C[t]
           F == h.flags[t]
           b == Block(t, j, a, i)
           W == Without(h.flags, C, Alone(a, b))
<1>1. /\ h \in HeapType /\ Forest(h.flags, C) /\ t \in Trees /\ j \in 0 .. c - 1
      /\ a \in Levels /\ i \in At(a) /\ F[N(j, a, i)].free /\ Lists(h, W)
  BY DEF Splittable
<1>2. /\ C \in [Trees -> ChunkCounts \cup {0}] /\ c \in 0 .. MaxChunks /\ j \in Nat
      /\ Tree(F, c) /\ q \in InChunk /\ Up(a, q) = i
      /\ a \in Nat /\ Depth \in Nat /\ a <= Depth /\ Depth \in Levels
  BY <1>1, Chunks, FirstPage, Widths, Constants DEF Forest, Levels
<1> HIDE DEF q, c, F, W, b
<1>3. ASSUME NEW m \in a + 1 .. Depth
      PROVE  /\ m \in Levels \ {0} /\ m \in Nat /\ m > a /\ e(m) \in At(m) /\ At1(m) \in Addresses
             /\ N(j, m, e(m)) \in Nodes
  <2>1. m \in Levels \ {0} /\ e(m) \in At(m)
    BY <1>1, <1>2, PathNodes
  <2>2. QED
    BY <1>1, <1>2, <2>1, SpotIn DEF Levels
<1>4. ASSUME NEW m \in a + 1 .. Depth
      PROVE  LET p == e(m) * Width(m)
             IN  p \in InChunk /\ Up(m, p) = e(m) /\ \A k \in 0 .. m - 1 : Up(k, p) = Up(k, q)
  <2> DEFINE p == e(m) * Width(m)
  <2>1. p \in InChunk /\ Up(m, p) = Twin(Up(m, q)) /\ m - 1 \in Levels
    BY <1>2, <1>3, FirstPage DEF Levels
  <2> HIDE DEF p
  <2>2. Up(m - 1, q) = Up(m - 1, p)
    BY <1>2, <1>3, <2>1, TwinAbove
  <2>3. \A k \in 0 .. m - 1 : Up(k, q) = Up(k, p)
    BY <1>2, <2>1, <2>2, SameAbove
  <2>4. QED
    BY <2>1, <2>3 DEF p
<1>5. \A k \in Levels : h.head[k] # NULL => h.head[k] \in W[k]
  BY <1>1 DEF Lists, Linked
<1>6. ASSUME NEW m \in Levels, NEW k \in Levels, m # k, h.head[m] = h.head[k]
      PROVE  h.head[m] = NULL
  BY <1>1, <1>5, <1>6 DEF Lists
<1>7. ASSUME NEW m \in a + 1 .. Depth, NEW k \in Levels, h.head[k] = At1(m)
      PROVE  FALSE
  <2> DEFINE p == e(m) * Width(m)
             y == e(m)
  <2>1. p \in InChunk /\ \A z \in 0 .. m - 1 : Up(z, p) = Up(z, q)
    BY <1>4
  <2>2. At1(m) \in W[k]
    BY <1>3, <1>5, <1>7, NoAddress
  <2>3. AllFree(h.flags, C, Alone(a, b))
    <3>1. FreeNode(h.flags, C, t, j, a, i)
      BY <1>1 DEF FreeNode, c, F
    <3>2. QED
      BY <3>1 DEF AllFree, FreeBlockOf, Alone, b
  <2>4. PICK u, v, x : /\ FreeNode(h.flags, C, u, v, k, x) /\ At1(m) = Spot(u, v, k, x)
                       /\ ~Among(Alone(a, b), k, Block(u, v, k, x))
    <3> DEFINE s == At1(m)
    <3> HIDE DEF s
    <3>1. s \in W[k] <=>
           \E u, v, x : /\ FreeNode(h.flags, C, u, v, k, x) /\ s = Spot(u, v, k, x)
                        /\ ~Among(Alone(a, b), k, Block(u, v, k, x))
      BY <1>2, <2>3, WithoutIs DEF W
    <3>2. QED
      BY <2>2, <3>1 DEF s
  <2>5. u \in Trees /\ v \in 0 .. C[u] - 1 /\ x \in At(k) /\ h.flags[u][N(v, k, x)].free /\ v \in Nat
    BY <1>2, <2>4, Chunks DEF FreeNode
  <2>6. u = t /\ v = j /\ x * Width(k) = p
    BY <1>2, <1>3, <2>4, <2>5, SpotOne DEF y
  <2>7. Up(k, p) = x
    BY <2>5, <2>6, FirstPage
  <2> HIDE DEF p, e
  <2>8. Leaf(F, Over(j, k, p))
    BY <2>5, <2>6, <2>7 DEF Leaf, Over, F
  <2>9. Up(a, p) = i
    BY <1>2, <1>3, <2>1
  <2>10. Leaf(F, Over(j, a, p))
    BY <1>1, <2>9 DEF Leaf, Over
  <2>11. k = a
    BY <1>1, <1>2, <2>1, <2>8, <2>10 DEF Tree, Covered
  <2>12. Block(u, v, k, x) = b
    BY <2>6, <2>7, <2>9, <2>11 DEF b
  <2>13. QED
    BY <2>4, <2>11, <2>12 DEF Among, Alone
<1>8. ASSUME NEW m \in a + 1 .. Depth, NEW k \in a + 1 .. Depth, m < k
      PROVE  At1(m) # At1(k)
  <2> DEFINE y == e(m)
             x == e(k)
             p == x * Width(k)
  <2>1. SUFFICES ASSUME At1(m) = At1(k)
                 PROVE  FALSE
    OBVIOUS
  <2>2. y \in At(m) /\ m \in Levels /\ x \in At(k) /\ k \in Levels
    BY <1>3
  <2>3. y * Width(m) = p
    BY <1>2, <2>1, <2>2, SpotOne
  <2>4. Up(m, p) = e(m)
    BY <1>4, <2>3
  <2>5. m \in 0 .. k - 1
    BY <1>3, <1>8
  <2>6. Up(m, p) = Up(m, q)
    BY <1>4, <2>5
  <2>7. Up(m, q) \in At(m)
    BY <1>2, <1>3, UpAt
  <2>8. Twin(Up(m, q)) # Up(m, q)
    BY <1>3, <2>7, Twins
  <2>9. QED
    BY <2>4, <2>6, <2>8
<1>9. ASSUME NEW m \in a + 1 .. Depth, NEW k \in a + 1 .. Depth, m # k
      PROVE  At1(m) # At1(k)
  BY <1>3, <1>8, <1>9
<1>10. \A m \in a + 1 .. Depth : At1(m) \in Addresses /\ \A k \in Levels : h.head[k] # At1(m)
  BY <1>3, <1>7
<1>11. QED
  BY <1>6, <1>9, <1>10 DEF q

\* The iterations of a division in closed form.
Halves(h, t, n, a, l) ==
  [heap |-> WithFlagsOf(PushEach(h, Rights(t, n, a, l)),
                        [h.flags EXCEPT ![t] = Marked(h.flags[t], n, a, l)]),
   node |-> Left(n, a, l)]

\* Before the first iteration nothing has changed.
LEMMA HalvesFirst ==
  ASSUME NEW h, NEW C, NEW t, NEW j, NEW a, NEW i, Splittable(h, C, t, j, a, i)
  PROVE  Halves(h, t, N(j, a, i), a, a) = [heap |-> h, node |-> N(j, a, i)]
<1> DEFINE n0 == N(j, a, i)
           c == C[t]
           F == h.flags[t]
           new == Rights(t, n0, a, a)
           P == PushEach(h, new)
<1>1. /\ h \in HeapType /\ Forest(h.flags, C) /\ t \in Trees /\ j \in 0 .. c - 1
      /\ a \in Levels /\ i \in At(a)
  BY DEF Splittable
<1>2. /\ C \in [Trees -> ChunkCounts \cup {0}] /\ c \in 0 .. MaxChunks /\ j \in Nat
      /\ F \in [Nodes -> FlagType] /\ a \in Nat
  BY <1>1, Chunks, Widths DEF Forest, Tree
<1>3. Marked(F, n0, a, a) = F
  BY <1>1, <1>2, MarkedFirst
<1>4. [h.flags EXCEPT ![t] = F] = h.flags
  BY <1>1 DEF HeapType
<1>5. Left(n0, a, a) = n0
  BY <1>1, <1>2, Constants, LeftIs, FirstPage DEF Levels, Over
<1>6. DOMAIN new = {}
  BY <1>2 DEF Rights
<1>7. Shaped(h)
  BY <1>1, HeapShape
<1> HIDE DEF new, n0, c, F
<1>8. PushHdr(h, new) = [x \in Addresses |-> h.hdr[x]] /\ PushHead(h, new) = [l \in Levels |-> h.head[l]]
  BY <1>6 DEF IsNew, IsHead, PushHdr, PushHead
<1>9. PushEach(h, new) = h
  BY <1>7, <1>8, PushParts DEF Shaped
<1>10. WithFlagsOf(h, h.flags) = h
  BY <1>7 DEF Shaped, WithFlagsOf
<1>11. QED
  BY <1>3, <1>4, <1>5, <1>9, <1>10 DEF Halves, new, F, n0

\* s is what one iteration makes of r.
Follows(s, r, t, l) == s = Halve(r, t, l)

\* Each closed form follows from the one before by an iteration.
LEMMA HalvesNext ==
  ASSUME NEW h, NEW C, NEW t, NEW j, NEW a, NEW i, Splittable(h, C, t, j, a, i),
         NEW l \in a + 1 .. Depth
  PROVE  /\ Follows(Halves(h, t, N(j, a, i), a, l), Halves(h, t, N(j, a, i), a, l - 1), t, l)
         /\ Shaped(Halves(h, t, N(j, a, i), a, l - 1).heap)
         /\ Address(<<t, Child(Left(N(j, a, i), a, l - 1), 1)>>, l) \in Addresses
<1> DEFINE n0 == N(j, a, i)
           c == C[t]
           F == h.flags[t]
           k == l - 1
           q == i * Width(a)
           new == Rights(t, n0, a, k)
           more == Rights(t, n0, a, l)
           x == Left(n0, a, l)
           y == Left(n0, a, k)
           G == Marked(F, n0, a, k)
           P == PushEach(h, new)
           FL == [h.flags EXCEPT ![t] = G]
           g == WithFlagsOf(P, FL)
<1>1. /\ h \in HeapType /\ Forest(h.flags, C) /\ t \in Trees /\ j \in 0 .. c - 1
      /\ a \in Levels /\ i \in At(a)
  BY DEF Splittable
<1>2. /\ C \in [Trees -> ChunkCounts \cup {0}] /\ c \in 0 .. MaxChunks /\ j \in Nat
      /\ F \in [Nodes -> FlagType] /\ a \in Nat
  BY <1>1, Chunks, Widths DEF Forest, Tree
<1>3. l \in Levels \ {0} /\ k \in a .. Depth /\ Child(y, 0) = x /\ Child(y, 1) = x + 1
  BY <1>1, <1>2, NextLeft
<1>4. Shaped(h) /\ Shaped(P) /\ P.flags = h.flags
  BY <1>1, HeapShape, PushParts
<1>5. /\ DOMAIN new = a + 1 .. k /\ DOMAIN more = a + 1 .. l
      /\ \A m \in DOMAIN new : more[m] = new[m]
      /\ more[l] = <<t, x + 1>>
  BY <1>2 DEF Rights
<1>6. \A m \in a + 1 .. l : more[m] = Block(t, j, m, Twin(Up(m, q))) /\ PlaceOf(more, m) = Spot(t, j, m, Twin(Up(m, q)))
                            /\ m \in a + 1 .. Depth /\ m \in Levels
  <2>1. SUFFICES ASSUME NEW m \in a + 1 .. l
                 PROVE  /\ more[m] = Block(t, j, m, Twin(Up(m, q)))
                        /\ PlaceOf(more, m) = Spot(t, j, m, Twin(Up(m, q)))
                        /\ m \in a + 1 .. Depth /\ m \in Levels
    OBVIOUS
  <2>2. m \in a + 1 .. Depth /\ m \in a .. Depth /\ m > a /\ m \in Levels
    BY <1>2, <1>3, Constants DEF Levels
  <2>3. more[m] = <<t, Left(n0, a, m) + 1>>
    BY DEF Rights
  <2>4. Left(n0, a, m) + 1 = N(j, m, Twin(Up(m, q)))
    BY <1>1, <1>2, <2>2, LeftIs
  <2>5. Twin(Up(m, q)) \in At(m)
    BY <1>1, <1>2, <2>2, FirstPage, Constants, PathNodes DEF Levels
  <2>6. PlaceOf(more, m) = Spot(t, j, m, Twin(Up(m, q)))
    <3> DEFINE w == Twin(Up(m, q))
    <3> HIDE DEF w, more
    <3>1. Address(<<t, N(j, m, w)>>, m) = Spot(t, j, m, w)
      BY <1>2, <2>2, <2>5, AddressIs DEF w, Spot
    <3>2. more[m] = <<t, N(j, m, w)>>
      BY <2>3, <2>4 DEF w
    <3>3. QED
      BY <3>1, <3>2 DEF PlaceOf, w
  <2>7. QED
    BY <2>2, <2>3, <2>4, <2>6 DEF Block
<1>7. /\ \A m, e \in Levels : m # e /\ h.head[m] = h.head[e] => h.head[m] = NULL
      /\ \A m \in a + 1 .. Depth : /\ Spot(t, j, m, Twin(Up(m, q))) \in Addresses
                                   /\ \A e \in Levels : h.head[e] # Spot(t, j, m, Twin(Up(m, q)))
      /\ \A m, e \in a + 1 .. Depth :
           m # e => Spot(t, j, m, Twin(Up(m, q))) # Spot(t, j, e, Twin(Up(e, q)))
  BY RightsApart
<1> HIDE DEF new, more, q, G, P, FL, x, y, F, c, n0
<1>8. PushEach(P, Alone(l, more[l])) = PushEach(h, more)
  <2>1. l \in Levels \ DOMAIN new /\ DOMAIN new \subseteq Levels /\ DOMAIN more = DOMAIN new \cup {l}
    BY <1>2, <1>3, <1>5, <1>6
  <2>2. \A m \in DOMAIN more : /\ PlaceOf(more, m) \in Addresses
                               /\ \A e \in Levels : h.head[e] # PlaceOf(more, m)
    BY <1>5, <1>6, <1>7
  <2>3. \A m, e \in DOMAIN more : m # e => PlaceOf(more, m) # PlaceOf(more, e)
    BY <1>5, <1>6, <1>7
  <2>4. /\ \A m \in DOMAIN new : more[m] = new[m]
        /\ \A m, e \in Levels : m # e /\ h.head[m] = h.head[e] => h.head[m] = NULL
    BY <1>5, <1>7
  <2>5. PushEach(PushEach(h, new), Alone(l, more[l])) = PushEach(h, more)
    BY <1>4, <2>1, <2>2, <2>3, <2>4, PushMore
  <2>6. QED
    BY <2>5 DEF P
<1>9. Shaped(g) /\ g.flags = FL /\ PushEach(g, Alone(l, more[l])) = WithFlagsOf(PushEach(h, more), FL)
  BY <1>4, <1>8, FlagsApart
<1>10. Halves(h, t, n0, a, k) = [heap |-> g, node |-> y]
  BY DEF Halves, P, new, FL, G, y, F
<1> DEFINE F2 == [FL EXCEPT ![t] = [[FL[t] EXCEPT ![Child(y, 1)] = Flag(l, TRUE, FALSE)]
                                       EXCEPT ![y] = Flag(l - 1, FALSE, TRUE)]]
<1>11. Halve([heap |-> g, node |-> y], t, l) =
         [heap |-> WithFlagsOf(PushEach(g, Alone(l, <<t, Child(y, 1)>>)), F2), node |-> Child(y, 0)]
  <2> HIDE DEF g, F2
  <2>1. l \in Levels
    BY <1>3
  <2>2. Halve([heap |-> g, node |-> y], t, l) =
           [heap |-> WithFlagsOf(PushEach(g, Alone(l, <<t, Child(y, 1)>>)),
                       [g.flags EXCEPT ![t] = [[g.flags[t] EXCEPT ![Child(y, 1)] = Flag(l, TRUE, FALSE)]
                                                  EXCEPT ![y] = Flag(l - 1, FALSE, TRUE)]]),
            node |-> Child(y, 0)]
    BY <1>9, <2>1, HalveIs
  <2>3. QED
    BY <1>9, <2>2 DEF F2
<1>12. F2 = [h.flags EXCEPT ![t] = Marked(F, n0, a, l)]
  <2>1. Marked(F, n0, a, l) = [[G EXCEPT ![x + 1] = Flag(l, TRUE, FALSE)] EXCEPT ![y] = Flag(l - 1, FALSE, TRUE)]
    <3>1. c \in 0 .. MaxChunks /\ j \in 0 .. c - 1 /\ a \in Levels /\ i \in At(a) /\ F \in [Nodes -> FlagType]
          /\ l \in a + 1 .. Depth
      BY <1>1, <1>2
    <3>2. Marked(F, N(j, a, i), a, l) =
           Forked(Marked(F, N(j, a, i), a, l - 1), Left(N(j, a, i), a, l), Left(N(j, a, i), a, l - 1), l)
      BY <3>1, MarkedNext
    <3>3. QED
      BY <3>2 DEF G, x, y, n0, Forked
  <2>2. FL[t] = G
    BY <1>1 DEF FL, HeapType
  <2> DEFINE L == Marked(F, n0, a, l)
  <2>3. F2 = [FL EXCEPT ![t] = L]
    BY <1>3, <2>1, <2>2
  <2> HIDE DEF L, F2
  <2>4. F2 = [h.flags EXCEPT ![t] = L]
    BY <2>3 DEF FL
  <2>5. QED
    BY <2>4 DEF L
<1> HIDE DEF F2
<1>13. WithFlagsOf(PushEach(g, Alone(l, more[l])), F2) = WithFlagsOf(PushEach(h, more), F2)
  BY <1>9 DEF WithFlagsOf
<1>14. Halves(h, t, n0, a, l) = [heap |-> WithFlagsOf(PushEach(h, more), F2), node |-> x]
  BY <1>12 DEF Halves, more, x, F
<1>15. Halves(h, t, n0, a, l) = Halve([heap |-> g, node |-> y], t, l)
  BY <1>3, <1>5, <1>11, <1>13, <1>14
<1>16. Address(<<t, Child(y, 1)>>, l) \in Addresses
  BY <1>2, <1>3, <1>5, <1>6, <1>7 DEF PlaceOf
<1>17. QED
  BY <1>9, <1>10, <1>15, <1>16 DEF n0, y, k, Follows

\* The end of a division: the block it comes to is in use.
Halved(h, t, n, a, d) ==
  [Halves(h, t, n, a, d).heap EXCEPT !.flags[t][Left(n, a, d)] = InUseFlag(d)]

\* What is left then is what Split says.
LEMMA HalvesLast ==
  ASSUME NEW h, NEW C, NEW t, NEW j, NEW a, NEW i, Splittable(h, C, t, j, a, i),
         NEW d \in Levels, a <= d
  PROVE  /\ Split(h, Block(t, j, a, i), a, d) =
              [heap |-> Halved(h, t, N(j, a, i), a, d), block |-> <<t, Left(N(j, a, i), a, d)>>]
         /\ Shaped(Halves(h, t, N(j, a, i), a, d).heap)
<1> DEFINE n0 == N(j, a, i)
           c == C[t]
           F == h.flags[t]
           G == SplitFlags(F, n0, a, d)
           M == Marked(F, n0, a, d)
           x == Left(n0, a, d)
           new == Rights(t, n0, a, d)
           P == PushEach(h, new)
           FM == [h.flags EXCEPT ![t] = M]
           FG == [h.flags EXCEPT ![t] = G]
           H == Halves(h, t, n0, a, d).heap
<1>1. /\ h \in HeapType /\ Forest(h.flags, C) /\ t \in Trees /\ j \in 0 .. c - 1
      /\ a \in Levels /\ i \in At(a)
  BY DEF Splittable
<1>2. /\ C \in [Trees -> ChunkCounts \cup {0}] /\ c \in 0 .. MaxChunks
      /\ F \in [Nodes -> FlagType]
  BY <1>1, Chunks DEF Forest, Tree
<1>3. [M EXCEPT ![x] = InUseFlag(d)] = G
  BY <1>1, <1>2, MarkedLast
<1>4. Shaped(h)
  BY <1>1, HeapShape
<1>5. H = WithFlagsOf(P, FM)
  BY DEF Halves
<1>6. Split(h, Block(t, j, a, i), a, d) =
        [heap |-> PushEach([h EXCEPT !.flags[t] = G], new), block |-> <<t, x>>]
  <2> HIDE DEF n0
  <2>1. Split(h, <<t, n0>>, a, d) =
           [heap  |-> PushEach([h EXCEPT !.flags[t] = SplitFlags(h.flags[t], n0, a, d)], Rights(t, n0, a, d)),
            block |-> <<t, Left(n0, a, d)>>]
    BY SplitIs
  <2>2. QED
    BY <2>1 DEF Block, n0
<1>7. [h EXCEPT !.flags[t] = G] = WithFlagsOf(h, FG)
  BY DEF WithFlagsOf
<1> HIDE DEF G, M, x, new, P, F, c, H
<1>8. PushEach(WithFlagsOf(h, FG), new) = WithFlagsOf(P, FG)
  BY <1>4, FlagsApart DEF P
<1>9. [WithFlagsOf(P, FM) EXCEPT !.flags[t][x] = InUseFlag(d)] = WithFlagsOf(P, FG)
  <2> DEFINE v == PushHead(h, new)
             w == PushHdr(h, new)
             u == InUseFlag(d)
  <2>1. P = [flags |-> h.flags, head |-> v, hdr |-> w]
    BY <1>4, PushParts DEF P
  <2> HIDE DEF v, w, FM, FG, u
  <2>2. WithFlagsOf(P, FM) = [flags |-> FM, head |-> v, hdr |-> w]
    BY <2>1 DEF WithFlagsOf
  <2>3. WithFlagsOf(P, FG) = [flags |-> FG, head |-> v, hdr |-> w]
    BY <2>1 DEF WithFlagsOf
  <2>4. [WithFlagsOf(P, FM) EXCEPT !.flags[t][x] = u] =
          [flags |-> [FM EXCEPT ![t] = [@ EXCEPT ![x] = u]], head |-> v, hdr |-> w]
    BY <2>2
  <2>5. [FM EXCEPT ![t] = [@ EXCEPT ![x] = u]] = FG
    BY <1>1, <1>3 DEF FM, HeapType, u, FG
  <2>6. QED
    BY <2>3, <2>4, <2>5 DEF u
<1>10. Shaped(P) /\ Shaped(WithFlagsOf(P, FM))
  BY <1>4, PushParts, FlagsApart DEF P
<1>11. Halved(h, t, n0, a, d) = WithFlagsOf(P, FG)
  BY <1>5, <1>9 DEF Halved, H, x
<1>12. QED
  BY <1>5, <1>6, <1>7, <1>8, <1>10, <1>11 DEF H, x

\* hmesh_tpool_divide () leaves what Split says, be the links of the block it divides
\* in the pool or, for a new pool, outside.
LEMMA DivideFromSplits ==
  ASSUME NEW h, NEW C, NEW t, NEW j, NEW a, NEW i, Splittable(h, C, t, j, a, i),
         NEW d \in Levels, a <= d
  PROVE  DivideFrom(h, t, N(j, a, i), a, d) = Split(h, Block(t, j, a, i), a, d)
<1> DEFINE n0 == N(j, a, i)
           f == [l \in a .. d |-> Halves(h, t, n0, a, l)]
<1>1. a \in Int /\ d \in Int /\ d <= Depth /\ Depth \in Nat /\ a \in Nat
  BY Constants DEF Splittable, Levels
<1>2. f = [l \in a .. d |-> f[l]]
  OBVIOUS
<1>3. f[a] = [heap |-> h, node |-> n0]
  BY <1>1, HalvesFirst
<1>4. ASSUME NEW l \in a + 1 .. d
      PROVE  f[l] = Halve(f[l - 1], t, l)
  <2>1. l \in a .. d /\ l - 1 \in a .. d /\ l \in a + 1 .. Depth
    BY <1>1
  <2>2. f[l] = Halves(h, t, n0, a, l) /\ f[l - 1] = Halves(h, t, n0, a, l - 1)
    BY <2>1
  <2>3. Halves(h, t, n0, a, l) = Halve(Halves(h, t, n0, a, l - 1), t, l)
    <3>1. l \in a + 1 .. Depth
      BY <2>1
    <3>2. Follows(Halves(h, t, N(j, a, i), a, l), Halves(h, t, N(j, a, i), a, l - 1), t, l)
      BY <3>1, HalvesNext
    <3>3. QED
      BY <3>2 DEF Follows
  <2>4. QED
    BY <2>2, <2>3
<1>5. f[d] = Halves(h, t, n0, a, d)
  BY <1>1
<1> HIDE DEF f, n0
<1>6. DivideFrom(h, t, n0, a, d) = Ended(f[d], t, d)
  <2>1. Iterates(f, h, t, n0, a, d)
    BY <1>2, <1>3, <1>4 DEF Iterates
  <2>2. QED
    BY <1>1, <2>1, DivideFromIs
<1>7. f[d].node = Left(n0, a, d)
  BY <1>5 DEF Halves
<1>8. QED
  BY <1>5, <1>6, <1>7, HalvesLast DEF Halved, Ended, n0

\* The header outside is at no page and is no end of a list.
LEMMA OutsideIs == Outside \notin Addresses /\ Outside # NULL
  BY Constants DEF Outside, Addresses, Trees, NULL

\* The parts of a heap with the header outside.
LEMMA OutsideParts ==
  ASSUME NEW g, Shaped(g)
  PROVE  WithOutside(g) = [flags |-> g.flags, head |-> g.head,
                           hdr |-> [a \in Addresses \cup {Outside} |->
                                      IF a = Outside THEN NoHeader ELSE g.hdr[a]]]
BY DEF Shaped, WithOutside

\* Dropping that header gives the heap back.
LEMMA InsideOutside ==
  ASSUME NEW g, Shaped(g)
  PROVE  Inside(WithOutside(g)) = g
<1> DEFINE K == [a \in Addresses \cup {Outside} |-> IF a = Outside THEN NoHeader ELSE g.hdr[a]]
<1>1. [a \in Addresses |-> K[a]] = [a \in Addresses |-> g.hdr[a]]
  BY OutsideIs
<1> HIDE DEF K
<1>2. WithOutside(g) = [flags |-> g.flags, head |-> g.head, hdr |-> K]
  BY OutsideParts DEF K
<1>3. Inside(WithOutside(g)) = [flags |-> g.flags, head |-> g.head, hdr |-> [a \in Addresses |-> K[a]]]
  BY <1>2 DEF Inside
<1>4. g = [flags |-> g.flags, head |-> [l \in Levels |-> g.head[l]],
           hdr |-> [a \in Addresses |-> g.hdr[a]]]
  BY DEF Shaped
<1>5. g.head = [l \in Levels |-> g.head[l]]
  BY <1>4
<1>6. QED
  BY <1>1, <1>3, <1>4, <1>5

\* A header outside is not touched by blocks pushed inside.
LEMMA PushOutside ==
  ASSUME NEW g, Shaped(g), NEW l \in Levels, NEW b, Address(b, l) \in Addresses, g.head[l] # Outside
  PROVE  PushAt(WithOutside(g), Address(b, l), b, l) = WithOutside(PushAt(g, Address(b, l), b, l))
<1> DEFINE x == Address(b, l)
           W == Addresses \cup {Outside}
           K == [a \in W |-> IF a = Outside THEN NoHeader ELSE g.hdr[a]]
           w == WithOutside(g)
           top == [g.head EXCEPT ![l] = x]
           e == [prev |-> NULL, next |-> g.head[l], blockID |-> b]
           L == [a \in Addresses |-> IF a = x THEN e ELSE IF a = g.head[l] THEN [g.hdr[a] EXCEPT !.prev = x]
                                     ELSE g.hdr[a]]
           R == [a \in W |-> IF a = x THEN e ELSE IF a = g.head[l] THEN [K[a] EXCEPT !.prev = x]
                             ELSE K[a]]
<1>1. w = [flags |-> g.flags, head |-> g.head, hdr |-> K]
  BY OutsideParts
<1>2. g = [flags |-> g.flags, head |-> [m \in Levels |-> g.head[m]],
           hdr |-> [a \in Addresses |-> g.hdr[a]]]
  BY DEF Shaped
<1>3. R = [a \in W |-> IF a = Outside THEN NoHeader ELSE L[a]]
  BY OutsideIs
<1>4. DOMAIN K = W /\ DOMAIN g.hdr = Addresses
  BY <1>2
<1>5. PushAt(w, x, b, l) = [flags |-> g.flags, head |-> top, hdr |-> R]
  <2> HIDE DEF K, x
  <2>1. PushAt([flags |-> g.flags, head |-> g.head, hdr |-> K], x, b, l) =
          [flags |-> g.flags, head |-> top,
           hdr |-> [a \in DOMAIN K |-> IF a = x THEN e ELSE IF a = g.head[l] THEN [K[a] EXCEPT !.prev = x]
                                       ELSE K[a]]]
    BY PushAtParts
  <2>2. QED
    BY <1>1, <1>4, <2>1
<1>6. PushAt(g, x, b, l) = [flags |-> g.flags, head |-> top, hdr |-> L]
  <2> HIDE DEF x
  <2>1. g = [flags |-> g.flags, head |-> g.head, hdr |-> g.hdr]
    BY <1>2
  <2>2. PushAt([flags |-> g.flags, head |-> g.head, hdr |-> g.hdr], x, b, l) =
          [flags |-> g.flags, head |-> top,
           hdr |-> [a \in DOMAIN g.hdr |-> IF a = x THEN e
                      ELSE IF a = g.head[l] THEN [g.hdr[a] EXCEPT !.prev = x] ELSE g.hdr[a]]]
    BY PushAtParts
  <2>3. QED
    BY <1>4, <2>1, <2>2
<1> HIDE DEF K, L, R, top, w, x
<1>7. WithOutside([flags |-> g.flags, head |-> top, hdr |-> L]) =
        [flags |-> g.flags, head |-> top, hdr |-> [a \in W |-> IF a = Outside THEN NoHeader ELSE L[a]]]
  BY DEF WithOutside
<1>8. QED
  BY <1>3, <1>5, <1>6, <1>7 DEF w, x

\* The first block of a list, taken off it, can be divided.
LEMMA HeadOut ==
  ASSUME NEW h, NEW C, Listed(h, C), NEW a \in Levels, h.head[a] # NULL
  PROVE  \E t \in Trees : \E j \in 0 .. C[t] - 1, i \in At(a) :
           LET P == PopEach(h, Alone(a, h.head[a]))
               b == Block(t, j, a, i)
           IN  /\ h.flags[t][N(j, a, i)].free /\ h.hdr[h.head[a]].blockID = b
               /\ P \in HeapType /\ P.flags = h.flags
               /\ Lists(P, Without(h.flags, C, Alone(a, b))) /\ NamedBut(P, C, Alone(a, b))
<1> DEFINE x == h.head[a]
           S == FreeAt(h.flags, C)
           P == PopEach(h, Alone(a, x))
<1>1. /\ h \in HeapType /\ Forest(h.flags, C) /\ Lists(h, S) /\ Named(h, C)
      /\ C \in [Trees -> ChunkCounts \cup {0}]
  BY DEF Listed, Forest
<1>2. x \in S[a]
  BY <1>1 DEF Lists, Linked
<1>3. PICK t, j, i : FreeNode(h.flags, C, t, j, a, i) /\ x = Spot(t, j, a, i)
  BY <1>1, <1>2, FreeAtIs
<1>4. t \in Trees /\ j \in 0 .. C[t] - 1 /\ i \in At(a) /\ h.flags[t][N(j, a, i)].free
  BY <1>3 DEF FreeNode
<1> DEFINE b == Block(t, j, a, i)
<1>5. h.hdr[x].blockID = b
  BY <1>1, <1>3, <1>4 DEF Named
<1>6. /\ P \in HeapType /\ P.flags = h.flags /\ Lists(P, Without(h.flags, C, Alone(a, b)))
      /\ NamedBut(P, C, Alone(a, b))
  <2> DEFINE old == Alone(a, b)
             gone == Alone(a, x)
  <2>1. DOMAIN old = {a} /\ DOMAIN gone = {a} /\ old[a] = b /\ gone[a] = x
    BY DEF Alone
  <2>2. PlaceOf(old, a) = x
    BY <1>1, <1>3, <2>1, PlaceIs DEF PlaceOf
  <2> HIDE DEF old, gone, P, S, x
  <2>3. AllFree(h.flags, C, old)
    BY <1>3, <2>1 DEF AllFree, FreeBlockOf
  <2>4. \A l \in DOMAIN gone : gone[l] = PlaceOf(old, l)
    BY <2>1, <2>2
  <2>5. DOMAIN old \subseteq Levels /\ DOMAIN gone = DOMAIN old
    BY <2>1
  <2>6. /\ PopEach(h, gone) \in HeapType /\ PopEach(h, gone).flags = h.flags
        /\ Lists(PopEach(h, gone), Without(h.flags, C, old)) /\ NamedBut(PopEach(h, gone), C, old)
    BY <2>3, <2>4, <2>5, PoppedOff
  <2>7. QED
    BY <2>6 DEF old, gone, P
<1>7. QED
  BY <1>4, <1>5, <1>6

\* hmesh_tpool_divide () of the first block of any list is Divide.
LEMMA DivideLoopIs ==
  ASSUME NEW h, NEW C, Listed(h, C), NEW a \in Levels, NEW d \in Levels, a <= d,
         h.head[a] # NULL
  PROVE  Divide(h, h.head[a], a, d) = DivideLoop(h, h.head[a], a, d)
<1> DEFINE x == h.head[a]
           S == FreeAt(h.flags, C)
           P == PopEach(h, Alone(a, x))
<1>1. h \in HeapType /\ Forest(h.flags, C) /\ Lists(h, S) /\ x \in S[a]
  BY DEF Listed, Lists, Linked
<1>2. PICK t \in Trees : \E j \in 0 .. C[t] - 1, i \in At(a) :
           LET b == Block(t, j, a, i)
           IN  /\ h.flags[t][N(j, a, i)].free /\ h.hdr[x].blockID = b
               /\ P \in HeapType /\ P.flags = h.flags
               /\ Lists(P, Without(h.flags, C, Alone(a, b))) /\ NamedBut(P, C, Alone(a, b))
  BY HeadOut
<1>3. PICK j \in 0 .. C[t] - 1, i \in At(a) :
           LET b == Block(t, j, a, i)
           IN  /\ h.flags[t][N(j, a, i)].free /\ h.hdr[x].blockID = b
               /\ P \in HeapType /\ P.flags = h.flags
               /\ Lists(P, Without(h.flags, C, Alone(a, b))) /\ NamedBut(P, C, Alone(a, b))
  BY <1>2
<1> DEFINE b == Block(t, j, a, i)
<1>4. h.hdr[x].blockID = b /\ b[1] = t /\ b[2] = N(j, a, i)
  BY <1>3 DEF Block
<1>5. PopAt(h, x, a) = P
  BY <1>1, PopAtIs DEF P
<1>6. Divide(h, x, a, d) = Split(P, b, a, d)
  BY <1>4 DEF Divide, Alone
<1>7. DivideLoop(h, x, a, d) = DivideFrom(P, t, N(j, a, i), a, d)
  BY <1>4, <1>5 DEF DivideLoop
<1> HIDE DEF x, P
<1>8. Splittable(P, C, t, j, a, i)
  BY <1>1, <1>3 DEF Splittable
<1>9. DivideFrom(P, t, N(j, a, i), a, d) = Split(P, Block(t, j, a, i), a, d)
  BY <1>8, DivideFromSplits
<1>10. QED
  BY <1>6, <1>7, <1>9 DEF x

\* The loop of a division does not touch a header outside.
SetFlag(p, t, n, v) == [p EXCEPT !.flags[t][n] = v]

\* Nor does a mark.
LEMMA FlagOutside ==
  ASSUME NEW p, Shaped(p), NEW t, NEW n, NEW v
  PROVE  /\ SetFlag(WithOutside(p), t, n, v) = WithOutside(SetFlag(p, t, n, v))
         /\ Shaped(SetFlag(p, t, n, v)) /\ SetFlag(p, t, n, v).head = p.head
<1> DEFINE FL == [p.flags EXCEPT ![t] = [@ EXCEPT ![n] = v]]
           W == Addresses \cup {Outside}
           K == [a \in W |-> IF a = Outside THEN NoHeader ELSE p.hdr[a]]
<1>1. p = [flags |-> p.flags, head |-> [l \in Levels |-> p.head[l]],
           hdr |-> [a \in Addresses |-> p.hdr[a]]]
  BY DEF Shaped
<1>2. SetFlag(p, t, n, v) = WithFlagsOf(p, FL)
  BY <1>1 DEF SetFlag, WithFlagsOf
<1> DEFINE g == WithFlagsOf(p, FL)
<1>3. Shaped(g) /\ g.flags = FL /\ g.head = p.head /\ g.hdr = p.hdr
  BY FlagsApart
<1>4. WithOutside(p) = [flags |-> p.flags, head |-> p.head, hdr |-> K]
  BY OutsideParts
<1>5. WithOutside(g) = [flags |-> FL, head |-> p.head, hdr |-> K]
  BY <1>3, OutsideParts
<1>6. SetFlag(WithOutside(p), t, n, v) = [flags |-> FL, head |-> p.head, hdr |-> K]
  BY <1>4 DEF SetFlag
<1>7. QED
  BY <1>2, <1>3, <1>5, <1>6

\* Nor does an iteration.
LEMMA HalveOutside ==
  ASSUME NEW g, Shaped(g), NEW t, NEW n, NEW l \in Levels,
         Address(<<t, Child(n, 1)>>, l) \in Addresses, g.head[l] # Outside
  PROVE  Halve([heap |-> WithOutside(g), node |-> n], t, l) =
           [heap |-> WithOutside(Halve([heap |-> g, node |-> n], t, l).heap), node |-> Child(n, 0)]
<1> DEFINE right == Child(n, 1)
           b == <<t, right>>
           x == Address(b, l)
           m == SetFlag(g, t, right, Flag(l, TRUE, FALSE))
           mw == SetFlag(WithOutside(g), t, right, Flag(l, TRUE, FALSE))
           p == PushAt(m, x, b, l)
           pw == PushAt(mw, x, b, l)
<1>1. mw = WithOutside(m) /\ Shaped(m) /\ m.head = g.head
  <2> DEFINE v == Flag(l, TRUE, FALSE)
  <2> HIDE DEF v, right
  <2>1. /\ SetFlag(WithOutside(g), t, right, v) = WithOutside(SetFlag(g, t, right, v))
        /\ Shaped(SetFlag(g, t, right, v)) /\ SetFlag(g, t, right, v).head = g.head
    BY FlagOutside
  <2>2. QED
    BY <2>1 DEF v
<1>2. /\ Halve([heap |-> g, node |-> n], t, l) =
           [heap |-> SetFlag(p, t, n, Flag(l - 1, FALSE, TRUE)), node |-> Child(n, 0)]
      /\ Halve([heap |-> WithOutside(g), node |-> n], t, l) =
           [heap |-> SetFlag(pw, t, n, Flag(l - 1, FALSE, TRUE)), node |-> Child(n, 0)]
  BY DEF Halve, SetFlag
<1> HIDE DEF m, mw, b
<1>3. pw = WithOutside(p) /\ Shaped(p)
  BY <1>1, PushOutside, PushAtIs, PushParts DEF b
<1> HIDE DEF p, pw
<1>4. SetFlag(pw, t, n, Flag(l - 1, FALSE, TRUE)) = WithOutside(SetFlag(p, t, n, Flag(l - 1, FALSE, TRUE)))
  <2> DEFINE v == Flag(l - 1, FALSE, TRUE)
  <2> HIDE DEF v
  <2>1. SetFlag(WithOutside(p), t, n, v) = WithOutside(SetFlag(p, t, n, v))
    BY <1>3, FlagOutside
  <2>2. QED
    BY <1>3, <2>1 DEF v
<1>5. Halve([heap |-> g, node |-> n], t, l).heap = SetFlag(p, t, n, Flag(l - 1, FALSE, TRUE))
  BY DEF Halve, SetFlag, p, m, b
<1>6. QED
  BY <1>2, <1>4, <1>5

\* So the division of a new root, its header outside, is Split as well.
LEMMA DivideFromOutside ==
  ASSUME NEW h, NEW C, NEW t, NEW j, NEW a, NEW i, Splittable(h, C, t, j, a, i),
         NEW d \in Levels, a <= d
  PROVE  DivideFrom(WithOutside(h), t, N(j, a, i), a, d).heap =
           WithOutside(Split(h, Block(t, j, a, i), a, d).heap)
<1> DEFINE n0 == N(j, a, i)
           s(l) == Halves(h, t, n0, a, l)
           f == [l \in a .. d |-> [heap |-> WithOutside(s(l).heap), node |-> s(l).node]]
<1>1. a \in Int /\ d \in Int /\ d <= Depth /\ Depth \in Nat /\ a \in Nat /\ h \in HeapType
  BY Constants DEF Splittable, Levels
<1>2. f = [l \in a .. d |-> f[l]]
  OBVIOUS
<1>3. f[a] = [heap |-> WithOutside(h), node |-> n0]
  BY <1>1, HalvesFirst
<1>4. ASSUME NEW l \in a + 1 .. d
      PROVE  f[l] = Halve(f[l - 1], t, l)
  <2> DEFINE g == s(l - 1).heap
             n == s(l - 1).node
  <2>1. l \in a .. d /\ l - 1 \in a .. d /\ l \in a + 1 .. Depth /\ l \in Levels
    BY <1>1 DEF Levels
  <2>2. /\ Follows(s(l), s(l - 1), t, l) /\ Shaped(g)
        /\ Address(<<t, Child(Left(n0, a, l - 1), 1)>>, l) \in Addresses
    BY <2>1, HalvesNext
  <2>3. s(l - 1) = [heap |-> g, node |-> n] /\ n = Left(n0, a, l - 1)
    BY DEF Halves
  <2>4. g.head[l] # Outside
    <3> DEFINE new == Rights(t, n0, a, l - 1)
               FL == [h.flags EXCEPT ![t] = Marked(h.flags[t], n0, a, l - 1)]
    <3>1. g = WithFlagsOf(PushEach(h, new), FL)
      BY DEF Halves
    <3>2. l \notin DOMAIN new
      BY <1>1 DEF Rights
    <3> HIDE DEF new, FL, g
    <3>3. Shaped(h) /\ Shaped(PushEach(h, new)) /\ PushEach(h, new).head = PushHead(h, new)
      BY <1>1, HeapShape, PushParts
    <3>4. g.head = PushHead(h, new)
      BY <3>1, <3>3, FlagsApart
    <3>5. g.head[l] = h.head[l] /\ h.head[l] \in Addresses \cup {NULL}
      BY <1>1, <2>1, <3>2, <3>4 DEF PushHead, HeapType
    <3>6. QED
      BY <3>5, OutsideIs
  <2>5. f[l] = [heap |-> WithOutside(s(l).heap), node |-> s(l).node]
    BY <2>1
  <2>6. f[l - 1] = [heap |-> WithOutside(g), node |-> n]
    BY <2>1
  <2> HIDE DEF s, f, g, n, n0
  <2>7. Halve([heap |-> WithOutside(g), node |-> n], t, l) =
           [heap |-> WithOutside(Halve([heap |-> g, node |-> n], t, l).heap), node |-> Child(n, 0)]
    BY <2>1, <2>2, <2>3, <2>4, HalveOutside
  <2>8. s(l) = Halve([heap |-> g, node |-> n], t, l)
    BY <2>2, <2>3 DEF Follows
  <2>9. s(l).node = Child(n, 0)
    BY <2>8 DEF Halve
  <2>10. QED
    BY <2>5, <2>6, <2>7, <2>8, <2>9
<1>5. f[d] = [heap |-> WithOutside(s(d).heap), node |-> Left(n0, a, d)]
  BY <1>1 DEF Halves
<1> HIDE DEF f, n0, s
<1>6. DivideFrom(WithOutside(h), t, n0, a, d) = Ended(f[d], t, d)
  <2>1. Iterates(f, WithOutside(h), t, n0, a, d)
    BY <1>2, <1>3, <1>4 DEF Iterates
  <2>2. QED
    BY <1>1, <2>1, DivideFromIs
<1>7. Ended(f[d], t, d).heap = SetFlag(WithOutside(s(d).heap), t, Left(n0, a, d), InUseFlag(d))
  BY <1>5 DEF Ended, SetFlag
<1>8. /\ Split(h, Block(t, j, a, i), a, d).heap = SetFlag(s(d).heap, t, Left(n0, a, d), InUseFlag(d))
      /\ Shaped(s(d).heap)
  BY HalvesLast DEF Halved, SetFlag, s, n0
<1>9. QED
  <2> DEFINE v == InUseFlag(d)
             x == Left(n0, a, d)
             g == s(d).heap
  <2> HIDE DEF v, x, g
  <2>1. SetFlag(WithOutside(g), t, x, v) = WithOutside(SetFlag(g, t, x, v))
    BY <1>8, FlagOutside DEF g
  <2>2. QED
    BY <1>6, <1>7, <1>8, <2>1 DEF v, x, g, n0

(***************************************************************************)
(* The loop of hmesh_tpool_add ().  Chunks k .. c - 1 are marked and their *)
(* roots linked, chunk k first.                                            *)
(***************************************************************************)
\* The flags then.
FreshFrom(k, c) ==
  [n \in Nodes |-> IF n >= k * Slots /\ n < c * Slots /\ Local(n) # Slots - 1
                   THEN Undeveloped(n) ELSE ZeroFlag]
\* The links then; Root and Rooted give those of one chunk.
RootsFrom(h, t, c, k) ==
  [a \in Addresses |->
     IF \E j \in k .. c - 1 : a = Root(t, j)
     THEN LET j == CHOOSE j \in k .. c - 1 : a = Root(t, j)
          IN  [prev |-> IF j = k THEN NULL ELSE Root(t, j - 1),
               next |-> IF j = c - 1 THEN NULL ELSE Root(t, j + 1),
               blockID |-> <<t, j * Slots>>]
     ELSE h.hdr[a]]
\* The head of list 0 then.
FirstRoot(t, c, k) == IF k = c THEN NULL ELSE Root(t, k)

\* What one iteration does to the flags of the tree, where it puts the header of the
\* root, and the links after a push and after a pop.
ChunkMarked(F, j) ==
  [n \in Nodes |->
     IF n = j * Slots THEN Flag(0, TRUE, FALSE)
     ELSE IF Base(n) = j * Slots /\ Local(n) < Slots - 1 THEN Flag(Level(n), FALSE, TRUE)
     ELSE F[n]]
ChunkAt(t, j) == IF j = 0 THEN Outside ELSE Address(<<t, j * Slots>>, 0)

Pushed(H, hd, at, id) ==
  [x \in DOMAIN H |->
     IF x = at THEN [prev |-> NULL, next |-> hd, blockID |-> id]
     ELSE IF x = hd THEN [H[x] EXCEPT !.prev = at] ELSE H[x]]
Popped(H, a) ==
  [x \in DOMAIN H |->
     IF x = a THEN NoHeader
     ELSE IF x = H[a].prev THEN [H[x] EXCEPT !.next = H[a].next]
     ELSE IF x = H[a].next THEN [H[x] EXCEPT !.prev = H[a].prev] ELSE H[x]]
\* A heap after an iteration, and after a pop, by its parts.
ChunkAdded(FL, hd, H, t, j) ==
  [flags |-> [FL EXCEPT ![t] = ChunkMarked(FL[t], j)],
   head |-> [hd EXCEPT ![0] = ChunkAt(t, j)],
   hdr |-> Pushed(H, hd[0], ChunkAt(t, j), <<t, j * Slots>>)]

HeadPopped(FL, hd, H, a, l) ==
  [flags |-> FL,
   head |-> [hd EXCEPT ![l] = IF H[a].prev = NULL THEN H[a].next ELSE hd[l]],
   hdr |-> Popped(H, a)]

\* What hmesh_tpool_pop () makes of the parts of a heap.
LEMMA PopAtParts ==
  ASSUME NEW FL, NEW hd, NEW H, NEW a, NEW l
  PROVE  PopAt([flags |-> FL, head |-> hd, hdr |-> H], a, l) = HeadPopped(FL, hd, H, a, l)
<1> DEFINE h == [flags |-> FL, head |-> hd, hdr |-> H]
           top == [hd EXCEPT ![l] = IF H[a].prev = NULL THEN H[a].next ELSE @]
           up == [hd EXCEPT ![l] = IF H[a].prev = NULL THEN H[a].next ELSE hd[l]]
           K == [x \in DOMAIN H |->
                   IF x = a THEN NoHeader
                   ELSE IF x = H[a].prev THEN [H[x] EXCEPT !.next = H[a].next]
                   ELSE IF x = H[a].next THEN [H[x] EXCEPT !.prev = H[a].prev] ELSE H[x]]
<1>1. PopAt(h, a, l) = [h EXCEPT !.head = top, !.hdr = K]
  BY DEF PopAt
<1>2. top = up
  OBVIOUS
<1>3. K = Popped(H, a)
  BY DEF Popped
<1> HIDE DEF top, up, K
<1>4. PopAt(h, a, l) = [flags |-> FL, head |-> up, hdr |-> K]
  BY <1>1, <1>2
<1>5. QED
  BY <1>3, <1>4 DEF up, HeadPopped

\* What an iteration makes of the parts of a heap.
LEMMA AddChunkParts ==
  ASSUME NEW FL, NEW hd, NEW H, NEW t, NEW j
  PROVE  AddChunk([flags |-> FL, head |-> hd, hdr |-> H], t, j) = ChunkAdded(FL, hd, H, t, j)
<1> DEFINE g == [flags |-> FL, head |-> hd, hdr |-> H]
           a == ChunkAt(t, j)
           b == <<t, j * Slots>>
           M == ChunkMarked(FL[t], j)
           G == [FL EXCEPT ![t] = M]
<1>1. AddChunk(g, t, j) = PushAt([g EXCEPT !.flags[t] = M], a, b, 0)
  BY DEF AddChunk, ChunkMarked, ChunkAt
<1> HIDE DEF M, a, b
<1>2. [g EXCEPT !.flags[t] = M] = [flags |-> G, head |-> hd, hdr |-> H]
  OBVIOUS
<1> HIDE DEF G, g
<1>3. PushAt([flags |-> G, head |-> hd, hdr |-> H], a, b, 0) =
        [flags |-> G, head |-> [hd EXCEPT ![0] = a],
         hdr |-> [x \in DOMAIN H |->
                    IF x = a THEN [prev |-> NULL, next |-> hd[0], blockID |-> b]
                    ELSE IF x = hd[0] THEN [H[x] EXCEPT !.prev = a] ELSE H[x]]]
  BY PushAtParts
<1>4. QED
  BY <1>1, <1>2, <1>3 DEF G, g, M, a, b, ChunkAdded, Pushed

\* An iteration marks the nodes of its chunk.
LEMMA ChunkNodes ==
  ASSUME NEW c \in Nat, NEW j \in 0 .. c - 1, NEW n \in Nodes
  PROVE  /\ n = j * Slots <=> Base(n) = j * Slots /\ Local(n) = 0
         /\ Base(n) = j * Slots <=> n >= j * Slots /\ ~(n >= (j + 1) * Slots)
         /\ Base(n) = j * Slots => n < c * Slots
         /\ n >= (j + 1) * Slots => n >= j * Slots
         /\ Local(n) \in 0 .. Slots - 1
<1>1. n \in Nat /\ Slots \in Nat \ {0}
  BY SlotsAre, Constants DEF Nodes
<1>2. /\ n \div Slots \in Int /\ Local(n) \in 0 .. Slots - 1
      /\ n = Slots * (n \div Slots) + Local(n)
  BY <1>1, Division DEF Local
<1> DEFINE r == Local(n)
           e == n \div Slots
           S == Slots
<1>3. e \in Int /\ r \in 0 .. S - 1 /\ n = S * e + r /\ Base(n) = n - r /\ S \in Nat \ {0}
  BY <1>1, <1>2 DEF Base
<1> HIDE DEF r, e, S
<1>4. Base(n) = S * e
  BY <1>3
<1>5. (j + 1) * S = j * S + S /\ j * S \in Int /\ S * e \in Int
  BY <1>3
<1>6. e < j => S * e + S <= j * S
  <2>1. SUFFICES ASSUME e < j PROVE S * e + S <= j * S
    OBVIOUS
  <2>2. j - e - 1 \in Nat
    BY <1>3, <2>1
  <2>3. S * (j - e - 1) >= 0
    BY <1>3, <2>2
  <2>4. S * (j - e - 1) = j * S - S * e - S
    BY <1>3
  <2>5. QED
    BY <1>3, <1>5, <2>3, <2>4
<1>7. e > j => S * e >= j * S + S
  <2>1. SUFFICES ASSUME e > j PROVE S * e >= j * S + S
    OBVIOUS
  <2>2. e - j - 1 \in Nat
    BY <1>3, <2>1
  <2>3. S * (e - j - 1) >= 0
    BY <1>3, <2>2
  <2>4. S * (e - j - 1) = S * e - j * S - S
    BY <1>3
  <2>5. QED
    BY <1>3, <1>5, <2>3, <2>4
<1>8. e = j => S * e = j * S
  BY <1>3
<1>9. j * S + S <= c * S
  BY <1>3, <1>5
<1> DEFINE x == S * e
           y == j * S
           z == (j + 1) * S
           w == c * S
<1>10. /\ n = x + r /\ Base(n) = x /\ z = y + S /\ y \in Int /\ x \in Int /\ w \in Int
       /\ e < j => x + S <= y
       /\ e > j => x >= y + S
       /\ e = j => x = y
       /\ y + S <= w
  BY <1>3, <1>4, <1>5, <1>6, <1>7, <1>8, <1>9
<1> HIDE DEF x, y, z, w
<1>11. e < j \/ e = j \/ e > j
  BY <1>3
<1>12. /\ n = y <=> Base(n) = y /\ r = 0
       /\ Base(n) = y <=> n >= y /\ ~(n >= z)
       /\ Base(n) = y => n < w
       /\ n >= z => n >= y
  BY <1>3, <1>10, <1>11
<1>13. QED
  BY <1>3, <1>12 DEF r, S, y, z, w

\* The roots are the nodes of level 0.
LEMMA LocalZero ==
  ASSUME NEW n \in Nodes, Local(n) # Slots - 1
  PROVE  Level(n) = 0 <=> Local(n) = 0
<1>1. n \in Nat
  BY SlotsAre, Constants DEF Nodes
<1>2. PICK j \in Nat, l \in Levels : \E i \in At(l) : n = N(j, l, i)
  BY <1>1, NumberOf
<1>3. PICK i \in At(l) : n = N(j, l, i)
  BY <1>2
<1>4. Level(n) = l /\ Local(n) = 2 ^ l - 1 + i
  BY <1>3, LevelIs, NumberIs
<1>5. l \in Nat /\ 2 ^ l \in Nat \ {0} /\ i \in Nat /\ i <= 2 ^ l - 1
  BY Widths DEF At
<1>6. CASE l = 0
  BY <1>4, <1>5, <1>6, TwoToThe
<1>7. CASE l # 0
  <2>1. l - 1 \in Nat
    BY <1>5, <1>7
  <2> DEFINE k == l - 1
  <2>2. 2 ^ k \in Nat /\ 2 ^ k >= 1 /\ 2 ^ (k + 1) = 2 * 2 ^ k /\ k + 1 = l
    BY <1>5, <2>1, TwoToThe
  <2> HIDE DEF k
  <2>3. 2 ^ l >= 2
    BY <2>2
  <2>4. QED
    BY <1>4, <1>5, <1>7, <2>3
<1>8. QED
  BY <1>6, <1>7

\* An iteration marks one chunk more.
LEMMA NextChunk ==
  ASSUME NEW c \in ChunkCounts, NEW j \in 0 .. c - 1
  PROVE  ChunkMarked(FreshFrom(j + 1, c), j) = FreshFrom(j, c)
<1>1. c \in Nat
  BY Constants
<1>2. ASSUME NEW n \in Nodes
      PROVE  ChunkMarked(FreshFrom(j + 1, c), j)[n] = FreshFrom(j, c)[n]
  <2>1. /\ n = j * Slots <=> Base(n) = j * Slots /\ Local(n) = 0
        /\ Base(n) = j * Slots <=> n >= j * Slots /\ ~(n >= (j + 1) * Slots)
        /\ Base(n) = j * Slots => n < c * Slots
        /\ n >= (j + 1) * Slots => n >= j * Slots
        /\ Local(n) \in 0 .. Slots - 1 /\ Slots \in Nat \ {0} /\ Slots >= 2
    BY <1>1, ChunkNodes, SlotsAre
  <2>2. Local(n) # Slots - 1 => (Level(n) = 0 <=> Local(n) = 0)
    BY LocalZero
  <2> DEFINE low == j * Slots
             high == (j + 1) * Slots
             top == c * Slots
             v == FreshFrom(j + 1, c)[n]
  <2>3. /\ v = (IF n >= high /\ n < top /\ Local(n) # Slots - 1 THEN Undeveloped(n) ELSE ZeroFlag)
        /\ FreshFrom(j, c)[n] =
             (IF n >= low /\ n < top /\ Local(n) # Slots - 1 THEN Undeveloped(n) ELSE ZeroFlag)
    BY DEF FreshFrom
  <2>4. ChunkMarked(FreshFrom(j + 1, c), j)[n] =
          (IF n = low THEN Flag(0, TRUE, FALSE)
           ELSE IF Base(n) = low /\ Local(n) < Slots - 1 THEN Flag(Level(n), FALSE, TRUE) ELSE v)
    BY DEF ChunkMarked
  <2>5. Undeveloped(n) = Flag(Level(n), Level(n) = 0, Level(n) > 0)
    BY DEF Undeveloped
  <2>6. Local(n) # Slots - 1 => Level(n) \in Nat
    <3>1. SUFFICES ASSUME Local(n) # Slots - 1 PROVE Level(n) \in Nat
      OBVIOUS
    <3>2. n \in Nat
      BY SlotsAre, Constants DEF Nodes
    <3>3. PICK k \in Nat, l \in Levels : \E i \in At(l) : n = N(k, l, i)
      BY <3>1, <3>2, NumberOf
    <3>4. Level(n) = l /\ l \in Nat
      BY <3>3, LevelIs, Widths
    <3>5. QED
      BY <3>4
  <2> HIDE DEF low, high, top, v
  <2>7. CASE Base(n) = low
    <3>1. ~(n >= high) /\ n >= low /\ n < top
      BY <2>1, <2>7 DEF low, high, top
    <3>2. CASE Local(n) = Slots - 1
      <4>1. v = ZeroFlag /\ FreshFrom(j, c)[n] = ZeroFlag /\ n # low
        BY <2>1, <2>3, <3>2 DEF low
      <4>2. ~(Local(n) < Slots - 1)
        BY <2>1, <3>2
      <4>3. QED
        BY <2>4, <4>1, <4>2
    <3>3. CASE Local(n) # Slots - 1 /\ Local(n) = 0
      <4>1. n = low /\ Level(n) = 0
        BY <2>1, <2>2, <2>7, <3>3 DEF low
      <4>2. (Level(n) = 0) = TRUE /\ (Level(n) > 0) = FALSE
        BY <4>1
      <4>3. Undeveloped(n) = Flag(0, TRUE, FALSE)
        BY <2>5, <4>1, <4>2
      <4>4. QED
        BY <2>3, <2>4, <3>1, <3>3, <4>1, <4>3
    <3>4. CASE Local(n) # Slots - 1 /\ Local(n) # 0
      <4>1. n # low /\ Level(n) # 0 /\ Level(n) > 0 /\ Local(n) < Slots - 1
        BY <2>1, <2>2, <2>6, <2>7, <3>4 DEF low
      <4>2. (Level(n) = 0) = FALSE /\ (Level(n) > 0) = TRUE
        BY <4>1
      <4>3. Undeveloped(n) = Flag(Level(n), FALSE, TRUE)
        BY <2>5, <4>2
      <4>4. QED
        BY <2>3, <2>4, <2>7, <3>1, <3>4, <4>1, <4>3
    <3>5. QED
      BY <3>2, <3>3, <3>4
  <2>8. CASE Base(n) # low
    <3>1. n >= high <=> n >= low
      BY <2>1, <2>8 DEF low, high
    <3>2. n # low
      BY <2>1, <2>8 DEF low
    <3>3. QED
      BY <2>3, <2>4, <2>8, <3>1, <3>2
  <2>9. QED
    BY <2>7, <2>8
<1>3. /\ ChunkMarked(FreshFrom(j + 1, c), j) = [n \in Nodes |-> ChunkMarked(FreshFrom(j + 1, c), j)[n]]
      /\ FreshFrom(j, c) = [n \in Nodes |-> FreshFrom(j, c)[n]]
  BY DEF ChunkMarked, FreshFrom
<1>4. QED
  BY <1>2, <1>3

\* Before the first iteration nothing is marked, after the last one everything.
LEMMA FreshEnds ==
  ASSUME NEW c \in ChunkCounts
  PROVE  /\ FreshFrom(c, c) = [n \in Nodes |-> ZeroFlag]
         /\ FreshFrom(0, c) = Fresh(c)
<1>1. \A n \in Nodes : n \in Nat /\ c * Slots \in Nat /\ 0 * Slots = 0
  BY SlotsAre, Constants DEF Nodes
<1> DEFINE top == c * Slots
           low == 0 * Slots
<1>2. \A n \in Nodes : n >= low /\ ~(n >= top /\ n < top)
  BY <1>1
<1> HIDE DEF top, low
<1>3. FreshFrom(c, c) = [n \in Nodes |-> ZeroFlag]
  BY <1>2 DEF FreshFrom, top
<1>4. FreshFrom(0, c) = Fresh(c)
  BY <1>2 DEF FreshFrom, top, low, Fresh
<1>5. QED
  BY <1>3, <1>4

\* The header of root j when chunk k is the first linked.
Rooted(c, k, j, t) ==
  [prev |-> IF j = k THEN NULL ELSE Root(t, j - 1),
   next |-> IF j = c - 1 THEN NULL ELSE Root(t, j + 1),
   blockID |-> <<t, j * Slots>>]

\* Chunks have different roots.
LEMMA OneRoot ==
  ASSUME NEW t, NEW j \in Nat, NEW k \in Nat, Root(t, j) = Root(t, k)
  PROVE  j = k
<1>1. Spot(t, j, 0, 0) = Spot(t, k, 0, 0)
  BY Zeroth
<1>2. 0 \in Levels /\ 0 \in At(0)
  BY Zeroth
<1> DEFINE z == 0
<1>3. Spot(t, j, z, z) = Spot(t, k, z, z) /\ z \in Levels /\ z \in At(z)
  BY <1>1, <1>2
<1> HIDE DEF z
<1>4. QED
  BY <1>3, SpotOne

\* Which headers are linked, and which are as they were.
LEMMA RootsAre ==
  ASSUME NEW h, NEW t \in Trees, NEW c \in ChunkCounts, NEW k \in 1 .. c
  PROVE  /\ \A j \in k .. c - 1 : /\ Root(t, j) \in Addresses
                                  /\ RootsFrom(h, t, c, k)[Root(t, j)] = Rooted(c, k, j, t)
         /\ \A a \in Addresses : (\A j \in k .. c - 1 : a # Root(t, j)) =>
              RootsFrom(h, t, c, k)[a] = h.hdr[a]
<1>1. c \in Nat /\ c \in 0 .. MaxChunks
  BY Constants
<1>2. ASSUME NEW j \in k .. c - 1
      PROVE  /\ Root(t, j) \in Addresses
             /\ RootsFrom(h, t, c, k)[Root(t, j)] = Rooted(c, k, j, t)
  <2>1. j \in Nat /\ j \in 0 .. c - 1
    BY <1>1
  <2>2. Root(t, j) \in Addresses
    <3> DEFINE z == 0
    <3>1. z \in Levels /\ z \in At(z) /\ Spot(t, j, z, z) = Root(t, j)
      BY <2>1, Zeroth
    <3> HIDE DEF z
    <3>2. QED
      BY <1>1, <2>1, <3>1, SpotIn
  <2>3. (CHOOSE i \in k .. c - 1 : Root(t, j) = Root(t, i)) = j
    <3>1. \A i \in k .. c - 1 : i \in Nat /\ (Root(t, j) = Root(t, i) => i = j)
      <4> TAKE i \in k .. c - 1
      <4>1. i \in Nat
        BY <1>1
      <4>2. QED
        BY <2>1, <4>1, OneRoot
    <3>2. QED
      BY <3>1
  <2> DEFINE r == Root(t, j)
             w == CHOOSE i \in k .. c - 1 : r = Root(t, i)
  <2>4. RootsFrom(h, t, c, k)[r] = Rooted(c, k, w, t)
    BY <2>2 DEF RootsFrom, Rooted
  <2>5. QED
    BY <2>2, <2>3, <2>4
<1>3. \A a \in Addresses : (\A j \in k .. c - 1 : a # Root(t, j)) =>
        RootsFrom(h, t, c, k)[a] = h.hdr[a]
  BY DEF RootsFrom
<1>4. QED
  BY <1>2, <1>3

\* Links with the header outside among them.
Wide(H) == [a \in Addresses \cup {Outside} |-> IF a = Outside THEN NoHeader ELSE H[a]]

\* Pushing the root of chunk k links one chunk more.
LEMMA NextRoot ==
  ASSUME NEW h, NEW t \in Trees, NEW c \in ChunkCounts, NEW k \in 1 .. c - 1
  PROVE  Pushed(Wide(RootsFrom(h, t, c, k + 1)), FirstRoot(t, c, k + 1), Root(t, k), <<t, k * Slots>>) =
           Wide(RootsFrom(h, t, c, k))
<1>1. c \in Nat /\ k \in Nat /\ k \in 1 .. c /\ k + 1 \in 1 .. c /\ k < c
  BY Constants
<1> DEFINE H == RootsFrom(h, t, c, k + 1)
           K == RootsFrom(h, t, c, k)
           hd == FirstRoot(t, c, k + 1)
           at == Root(t, k)
           id == <<t, k * Slots>>
           P == Pushed(Wide(H), hd, at, id)
<1>2. /\ \A j \in k + 1 .. c - 1 : Root(t, j) \in Addresses /\ H[Root(t, j)] = Rooted(c, k + 1, j, t)
      /\ \A a \in Addresses : (\A j \in k + 1 .. c - 1 : a # Root(t, j)) => H[a] = h.hdr[a]
      /\ \A j \in k .. c - 1 : Root(t, j) \in Addresses /\ K[Root(t, j)] = Rooted(c, k, j, t)
      /\ \A a \in Addresses : (\A j \in k .. c - 1 : a # Root(t, j)) => K[a] = h.hdr[a]
  <2>1. /\ \A j \in k + 1 .. c - 1 : Root(t, j) \in Addresses /\ H[Root(t, j)] = Rooted(c, k + 1, j, t)
        /\ \A a \in Addresses : (\A j \in k + 1 .. c - 1 : a # Root(t, j)) => H[a] = h.hdr[a]
    <3> DEFINE m == k + 1
    <3>1. m \in 1 .. c
      BY <1>1
    <3> HIDE DEF m
    <3>2. /\ \A j \in m .. c - 1 : /\ Root(t, j) \in Addresses
                                   /\ RootsFrom(h, t, c, m)[Root(t, j)] = Rooted(c, m, j, t)
          /\ \A a \in Addresses : (\A j \in m .. c - 1 : a # Root(t, j)) =>
               RootsFrom(h, t, c, m)[a] = h.hdr[a]
      BY <3>1, RootsAre
    <3>3. QED
      BY <3>2 DEF m
  <2>2. QED
    BY <1>1, <2>1, RootsAre
<1>3. \A j \in k .. c - 1 : \A i \in k .. c - 1 : Root(t, j) = Root(t, i) => j = i
  <2> TAKE j \in k .. c - 1
  <2> TAKE i \in k .. c - 1
  <2>1. j \in Nat /\ i \in Nat
    BY <1>1
  <2>2. QED
    BY <2>1, OneRoot
<1>4. /\ P = [x \in Addresses \cup {Outside} |-> P[x]]
      /\ Wide(K) = [x \in Addresses \cup {Outside} |-> Wide(K)[x]]
  BY DEF Pushed, Wide
<1>5. \A x \in Addresses \cup {Outside} :
        /\ P[x] = IF x = at THEN [prev |-> NULL, next |-> hd, blockID |-> id]
                  ELSE IF x = hd THEN [Wide(H)[x] EXCEPT !.prev = at] ELSE Wide(H)[x]
        /\ Wide(H)[x] = IF x = Outside THEN NoHeader ELSE H[x]
        /\ Wide(K)[x] = IF x = Outside THEN NoHeader ELSE K[x]
  BY DEF Pushed, Wide
<1>6. /\ at \in Addresses /\ K[at] = Rooted(c, k, k, t)
      /\ hd = NULL <=> k = c - 1
      /\ k < c - 1 => /\ hd = Root(t, k + 1) /\ hd \in Addresses /\ hd # at
                      /\ H[hd] = Rooted(c, k + 1, k + 1, t) /\ K[hd] = Rooted(c, k, k + 1, t)
  BY <1>1, <1>2, <1>3, NoAddress DEF FirstRoot
<1>7. Outside \notin Addresses /\ Outside # NULL /\ NULL \notin Addresses
  BY OutsideIs, NoAddress
<1> HIDE DEF H, K, hd, at, id, P
<1>8. ASSUME NEW x \in Addresses \cup {Outside}
      PROVE  P[x] = Wide(K)[x]
  <2>1. CASE x = Outside
    <3>1. hd # x /\ at # x
      BY <1>1, <1>6, <1>7, <2>1
    <3>2. QED
      BY <1>5, <2>1, <3>1
  <2>2. CASE x = at
    <3>1. P[x] = [prev |-> NULL, next |-> hd, blockID |-> id] /\ Wide(K)[x] = Rooted(c, k, k, t)
      BY <1>5, <1>6, <1>7, <2>2
    <3>2. hd = IF k = c - 1 THEN NULL ELSE Root(t, k + 1)
      BY <1>1, <1>6
    <3>3. Rooted(c, k, k, t) = [prev |-> NULL, next |-> hd, blockID |-> id]
      BY <3>2 DEF Rooted, id
    <3>4. QED
      BY <3>1, <3>3
  <2>3. CASE x = hd /\ x # at /\ x # Outside
    <3>1. k < c - 1
      BY <1>1, <1>6, <1>7, <2>3
    <3>2. P[x] = [Rooted(c, k + 1, k + 1, t) EXCEPT !.prev = at] /\ Wide(K)[x] = Rooted(c, k, k + 1, t)
      <4>1. P[x] = [Wide(H)[x] EXCEPT !.prev = at] /\ Wide(H)[x] = H[x] /\ Wide(K)[x] = K[x]
        BY <1>5, <2>3
      <4>2. H[x] = Rooted(c, k + 1, k + 1, t) /\ K[x] = Rooted(c, k, k + 1, t)
        BY <1>6, <2>3, <3>1
      <4>3. QED
        BY <4>1, <4>2
    <3>3. [Rooted(c, k + 1, k + 1, t) EXCEPT !.prev = at] = Rooted(c, k, k + 1, t)
      <4>1. k + 1 # k /\ (k + 1) - 1 = k
        BY <1>1
      <4> DEFINE m == k + 1
                 nx == IF m = c - 1 THEN NULL ELSE Root(t, m + 1)
                 no == <<t, m * Slots>>
      <4>2. Rooted(c, m, m, t) = [prev |-> NULL, next |-> nx, blockID |-> no]
        BY DEF Rooted
      <4>3. Rooted(c, k, m, t) = [prev |-> Root(t, k), next |-> nx, blockID |-> no]
        BY <4>1 DEF Rooted
      <4> HIDE DEF nx, no
      <4>4. QED
        BY <4>2, <4>3 DEF at
    <3>4. QED
      BY <3>2, <3>3
  <2>4. CASE x # hd /\ x # at /\ x # Outside
    <3>1. x \in Addresses /\ P[x] = H[x] /\ Wide(K)[x] = K[x]
      BY <1>5, <2>4
    <3>2. CASE \E j \in k .. c - 1 : x = Root(t, j)
      <4>1. PICK j \in k .. c - 1 : x = Root(t, j)
        BY <3>2
      <4>2. j \in Int /\ j # k
        BY <2>4, <4>1 DEF at
      <4>3. j # k + 1 /\ j \in k + 1 .. c - 1
        BY <1>1, <1>6, <2>4, <4>1, <4>2
      <4>4. H[x] = Rooted(c, k + 1, j, t) /\ K[x] = Rooted(c, k, j, t)
        BY <1>2, <4>1, <4>3
      <4>5. Rooted(c, k + 1, j, t) = Rooted(c, k, j, t)
        BY <4>2, <4>3 DEF Rooted
      <4>6. QED
        BY <3>1, <4>4, <4>5
    <3>3. CASE ~\E j \in k .. c - 1 : x = Root(t, j)
      BY <1>1, <1>2, <3>1, <3>3
    <3>4. QED
      BY <3>2, <3>3
  <2>5. QED
    BY <2>1, <2>2, <2>3, <2>4
<1>9. P = Wide(K)
  BY <1>4, <1>8
<1>10. QED
  BY <1>9 DEF P, H, hd, at, id, K

\* Of two writes to one place the second stays.
LEMMA Overwritten ==
  ASSUME NEW FL, NEW t \in DOMAIN FL, NEW A, NEW B
  PROVE  [[FL EXCEPT ![t] = A] EXCEPT ![t] = B] = [FL EXCEPT ![t] = B] /\ [FL EXCEPT ![t] = A][t] = A
  OBVIOUS

\* The heap with chunks k .. c - 1 of tree t marked and linked.
WideTo(h, t, c, k) == [flags |-> [h.flags EXCEPT ![t] = FreshFrom(k, c)],
                       head  |-> [h.head EXCEPT ![0] = FirstRoot(t, c, k)],
                       hdr   |-> Wide(RootsFrom(h, t, c, k))]
\* s is what the iteration for chunk j makes of r.
NextTo(s, r, t, j) == s = AddChunk(r, t, j)

\* The tree is about to be mapped: list 0 is empty and the flags are zero.
Bare(h, t, c) == /\ h \in HeapType /\ h.head[0] = NULL /\ t \in Trees /\ c \in ChunkCounts
                 /\ h.flags[t] = [n \in Nodes |-> ZeroFlag]

\* Before the first iteration the heap is as it was.
LEMMA WideFirst ==
  ASSUME NEW h, NEW t, NEW c, Bare(h, t, c)
  PROVE  WideTo(h, t, c, c) = WithOutside(h)
<1>1. /\ h \in HeapType /\ h.head[0] = NULL /\ t \in Trees /\ c \in ChunkCounts /\ Shaped(h)
      /\ h.flags[t] = [n \in Nodes |-> ZeroFlag] /\ c \in Nat
  BY HeapShape, Constants DEF Bare
<1>2. [h.flags EXCEPT ![t] = FreshFrom(c, c)] = h.flags
  BY <1>1, FreshEnds DEF HeapType
<1>3. [h.head EXCEPT ![0] = FirstRoot(t, c, c)] = h.head
  BY <1>1 DEF HeapType, FirstRoot
<1>4. \A a \in Addresses : RootsFrom(h, t, c, c)[a] = h.hdr[a]
  BY <1>1 DEF RootsFrom
<1>5. Wide(RootsFrom(h, t, c, c)) = [a \in Addresses \cup {Outside} |-> IF a = Outside THEN NoHeader ELSE h.hdr[a]]
  BY <1>4 DEF Wide
<1>6. WithOutside(h) = [flags |-> h.flags, head |-> h.head,
                        hdr |-> [a \in Addresses \cup {Outside} |-> IF a = Outside THEN NoHeader ELSE h.hdr[a]]]
  BY <1>1, OutsideParts
<1>7. QED
  BY <1>2, <1>3, <1>5, <1>6 DEF WideTo

\* Each heap follows from the one before by an iteration.
LEMMA WideNext ==
  ASSUME NEW h, NEW t, NEW c, Bare(h, t, c), NEW k \in 1 .. c - 1
  PROVE  NextTo(WideTo(h, t, c, k), WideTo(h, t, c, k + 1), t, k)
<1>1. /\ h.flags \in [Trees -> [Nodes -> FlagType]] /\ h.head \in [Levels -> Addresses \cup {NULL}]
      /\ t \in DOMAIN h.flags /\ 0 \in DOMAIN h.head /\ t \in Trees /\ c \in ChunkCounts
      /\ c \in Nat /\ k \in Nat /\ k \in 0 .. c - 1 /\ k # 0 /\ k # c
  BY Constants, Zeroth DEF Bare, HeapType
<1> DEFINE FL == h.flags
           A == FreshFrom(k + 1, c)
           B == FreshFrom(k, c)
           hd == h.head
           x == FirstRoot(t, c, k + 1)
           y == FirstRoot(t, c, k)
           H == Wide(RootsFrom(h, t, c, k + 1))
           K == Wide(RootsFrom(h, t, c, k))
           FA == [FL EXCEPT ![t] = A]
           hx == [hd EXCEPT ![0] = x]
<1>2. ChunkAt(t, k) = y /\ y = Root(t, k)
  <2>1. Spot(t, k, 0, 0) = Root(t, k) /\ Block(t, k, 0, 0) = <<t, k * Slots>>
    BY <1>1, Zeroth DEF Block
  <2> DEFINE z == 0
  <2>2. z \in Levels /\ z \in At(z)
    BY Zeroth
  <2>3. Spot(t, k, z, z) = Root(t, k) /\ Block(t, k, z, z) = <<t, k * Slots>>
    BY <2>1
  <2>4. Address(<<t, k * Slots>>, z) = Root(t, k)
    BY <1>1, <2>2, <2>3, AddressIs DEF Spot, Block
  <2>5. QED
    BY <1>1, <2>4 DEF ChunkAt, FirstRoot
<1>3. ChunkMarked(A, k) = B
  BY <1>1, NextChunk
<1>4. Pushed(H, x, y, <<t, k * Slots>>) = K
  BY <1>2, NextRoot, <1>1
<1>5. WideTo(h, t, c, k + 1) = [flags |-> FA, head |-> hx, hdr |-> H]
  BY DEF WideTo
<1>6. WideTo(h, t, c, k) = [flags |-> [FL EXCEPT ![t] = B], head |-> [hd EXCEPT ![0] = y], hdr |-> K]
  BY DEF WideTo
<1>7. /\ [FA EXCEPT ![t] = B] = [FL EXCEPT ![t] = B] /\ FA[t] = A
      /\ [hx EXCEPT ![0] = y] = [hd EXCEPT ![0] = y] /\ hx[0] = x
  BY <1>1, Overwritten DEF FL, hd
<1> HIDE DEF FA, hx, H, K, x, y, A, B, FL, hd
<1>8. AddChunk([flags |-> FA, head |-> hx, hdr |-> H], t, k) = ChunkAdded(FA, hx, H, t, k)
  BY AddChunkParts
<1>9. ChunkAdded(FA, hx, H, t, k) =
        [flags |-> [FL EXCEPT ![t] = B], head |-> [hd EXCEPT ![0] = y], hdr |-> K]
  BY <1>2, <1>3, <1>4, <1>7 DEF ChunkAdded
<1>10. QED
  BY <1>5, <1>6, <1>8, <1>9 DEF NextTo

\* The last iteration pushes root 0 through the header outside; popped again, it
\* leaves the heap planted.
LEMMA WideLast ==
  ASSUME NEW h, NEW t, NEW c, Bare(h, t, c)
  PROVE  LET g == AddChunk(WideTo(h, t, c, 1), t, 0)
         IN  /\ g.hdr[Outside].blockID = <<t, 0>>
             /\ PopAt(g, Outside, 0) = WithOutside(Planted(h, t, c))
<1>1. /\ h.flags \in [Trees -> [Nodes -> FlagType]] /\ h.head \in [Levels -> Addresses \cup {NULL}]
      /\ t \in DOMAIN h.flags /\ 0 \in DOMAIN h.head /\ t \in Trees /\ c \in ChunkCounts
      /\ c \in Nat /\ c >= 2 /\ 1 \in 1 .. c /\ 1 \in 1 .. c - 1 /\ h.head[0] = NULL /\ 0 \in 0 .. c - 1
      /\ h \in HeapType /\ 0 * Slots = 0
  BY Constants, Zeroth, SlotsAre DEF Bare, HeapType
<1> DEFINE FL == h.flags
           A == FreshFrom(1, c)
           B == Fresh(c)
           hd == h.head
           x == Root(t, 1)
           H == Wide(RootsFrom(h, t, c, 1))
           FA == [FL EXCEPT ![t] = A]
           hx == [hd EXCEPT ![0] = x]
           id == <<t, 0>>
           P == [u \in Addresses \cup {Outside} |->
                   IF u = Outside THEN [prev |-> NULL, next |-> x, blockID |-> id]
                   ELSE IF u = x THEN [H[u] EXCEPT !.prev = Outside] ELSE H[u]]
           FB == [FL EXCEPT ![t] = B]
           ho == [hd EXCEPT ![0] = Outside]
           g == [flags |-> FB, head |-> ho, hdr |-> P]
<1>2. WideTo(h, t, c, 1) = [flags |-> FA, head |-> hx, hdr |-> H]
  <2>1. FirstRoot(t, c, 1) = x
    BY <1>1 DEF FirstRoot
  <2>2. QED
    BY <2>1 DEF WideTo
<1>3. ChunkMarked(A, 0) = B
  <2> DEFINE z == 0
  <2>1. z \in 0 .. c - 1 /\ z + 1 = 1
    BY <1>1
  <2> HIDE DEF z
  <2>2. ChunkMarked(FreshFrom(z + 1, c), z) = FreshFrom(z, c)
    BY <1>1, <2>1, NextChunk
  <2>3. QED
    BY <1>1, <2>1, <2>2, FreshEnds DEF z
<1>4. DOMAIN H = Addresses \cup {Outside}
  BY DEF Wide
<1>5. /\ [FA EXCEPT ![t] = B] = FB /\ FA[t] = A
      /\ [hx EXCEPT ![0] = Outside] = ho /\ hx[0] = x
  BY <1>1, Overwritten DEF FL, hd
<1>6. AddChunk(WideTo(h, t, c, 1), t, 0) = g
  <2> HIDE DEF FA, hx, H, x, A, B, FL, hd, FB, ho
  <2>1. AddChunk([flags |-> FA, head |-> hx, hdr |-> H], t, 0) = ChunkAdded(FA, hx, H, t, 0)
    BY AddChunkParts
  <2>2. ChunkAt(t, 0) = Outside
    BY DEF ChunkAt
  <2>3. ChunkAdded(FA, hx, H, t, 0) = [flags |-> FB, head |-> ho, hdr |-> Pushed(H, x, Outside, id)]
    BY <1>1, <1>3, <1>5, <2>2 DEF ChunkAdded
  <2>4. Pushed(H, x, Outside, id) = P
    BY <1>4 DEF Pushed
  <2>5. QED
    BY <1>2, <2>1, <2>3, <2>4
<1>7. g.hdr[Outside].blockID = <<t, 0>>
  OBVIOUS
<1> DEFINE R == [u \in Addresses \cup {Outside} |-> IF u = Outside THEN NoHeader ELSE RootHdr(h, t, c)[u]]
<1>8. WithOutside(Planted(h, t, c)) = [flags |-> FB, head |-> hx, hdr |-> R]
  <2>1. Shaped(Planted(h, t, c))
    BY <1>1 DEF RootHdr, Planted, Shaped
  <2>2. QED
    BY <2>1, OutsideParts DEF Planted
<1>9. PopAt(g, Outside, 0) =
        [flags |-> FB, head |-> hx,
         hdr |-> [u \in Addresses \cup {Outside} |->
                    IF u = Outside THEN NoHeader
                    ELSE IF u = NULL THEN [P[u] EXCEPT !.next = x]
                    ELSE IF u = x THEN [P[u] EXCEPT !.prev = NULL] ELSE P[u]]]
  <2>1. P[Outside] = [prev |-> NULL, next |-> x, blockID |-> id] /\ DOMAIN P = Addresses \cup {Outside}
    OBVIOUS
  <2>2. [ho EXCEPT ![0] = x] = hx
    BY <1>1, Overwritten DEF hd
  <2> HIDE DEF FB, ho, P, x, hx, id
  <2>3. PopAt(g, Outside, 0) =
          [flags |-> FB,
           head |-> [ho EXCEPT ![0] = IF P[Outside].prev = NULL THEN P[Outside].next ELSE ho[0]],
           hdr |-> Popped(P, Outside)]
    BY ZenonT(40), PopAtParts DEF HeadPopped
  <2>4. P[Outside].prev = NULL /\ P[Outside].next = x
    BY <2>1
  <2>5. Popped(P, Outside) =
          [u \in Addresses \cup {Outside} |->
                    IF u = Outside THEN NoHeader
                    ELSE IF u = NULL THEN [P[u] EXCEPT !.next = x]
                    ELSE IF u = x THEN [P[u] EXCEPT !.prev = NULL] ELSE P[u]]
    BY <2>1, <2>4 DEF Popped
  <2>6. QED
    BY <2>2, <2>3, <2>4, <2>5
<1>10. ASSUME NEW u \in Addresses
       PROVE  /\ u # NULL /\ u # Outside
              /\ u # x => P[u] = RootHdr(h, t, c)[u]
              /\ u = x => [P[u] EXCEPT !.prev = NULL] = RootHdr(h, t, c)[u]
  <2>1. u # NULL /\ u # Outside
    BY OutsideIs, NoAddress
  <2>2. H[u] = RootsFrom(h, t, c, 1)[u] /\ u # h.head[0]
    BY <1>1, <2>1 DEF Wide
  <2>3. RootHdr(h, t, c)[u] = RootsFrom(h, t, c, 1)[u]
    BY <1>1, <2>2 DEF RootHdr, RootsFrom
  <2>4. u = x => RootsFrom(h, t, c, 1)[u] = Rooted(c, 1, 1, t)
    <3> DEFINE m == 1
    <3>1. m \in 1 .. c /\ m \in m .. c - 1
      BY <1>1
    <3> HIDE DEF m
    <3>2. RootsFrom(h, t, c, m)[Root(t, m)] = Rooted(c, m, m, t)
      BY <1>1, <3>1, RootsAre
    <3>3. QED
      BY <3>2 DEF m
  <2>5. Rooted(c, 1, 1, t).prev = NULL
    BY DEF Rooted
  <2>6. CASE u # x
    BY <2>1, <2>2, <2>3, <2>6
  <2>7. CASE u = x
    <3> DEFINE nx == IF 1 = c - 1 THEN NULL ELSE Root(t, 1 + 1)
               no == <<t, 1 * Slots>>
    <3>1. Rooted(c, 1, 1, t) = [prev |-> NULL, next |-> nx, blockID |-> no]
      BY DEF Rooted
    <3> HIDE DEF nx, no
    <3>2. P[u] = [H[u] EXCEPT !.prev = Outside] /\ H[u] = Rooted(c, 1, 1, t)
      BY <2>1, <2>2, <2>4, <2>7
    <3> HIDE DEF P, H
    <3>5. P[u] = [prev |-> Outside, next |-> nx, blockID |-> no]
      BY <3>1, <3>2
    <3>3. [P[u] EXCEPT !.prev = NULL] = [prev |-> NULL, next |-> nx, blockID |-> no]
      BY <3>5
    <3>4. QED
      BY <2>1, <2>3, <2>4, <2>7, <3>1, <3>3
  <2>8. QED
    BY <2>6, <2>7
<1>11. R = [u \in Addresses \cup {Outside} |->
                    IF u = Outside THEN NoHeader
                    ELSE IF u = NULL THEN [P[u] EXCEPT !.next = x]
                    ELSE IF u = x THEN [P[u] EXCEPT !.prev = NULL] ELSE P[u]]
  BY <1>10
<1> HIDE DEF g, R, FB, hx, P, x
<1>12. PopAt(g, Outside, 0) = WithOutside(Planted(h, t, c))
  BY <1>8, <1>9, <1>11
<1>13. QED
  BY <1>6, <1>7, <1>12

\* The whole loop leaves root 0 to be divided in the planted heap.
LEMMA AddLoopIs ==
  ASSUME NEW h, NEW t, NEW c, Bare(h, t, c)
  PROVE  AddLoop(WithOutside(h), t, c) =
           DivideFrom(WithOutside(Planted(h, t, c)), t, 0, 0, Depth).heap
<1>1. c \in Nat /\ c >= 2
  BY Constants DEF Bare
<1> DEFINE last == AddChunk(WideTo(h, t, c, 1), t, 0)
           f == [i \in 0 .. c |-> IF i = c THEN last ELSE WideTo(h, t, c, c - i)]
           Body(g) == [i \in 0 .. c |-> IF i = 0 THEN WithOutside(h) ELSE AddChunk(g[i - 1], t, c - i)]
           at == CHOOSE g : g = Body(g)
<1>2. f[0] = WithOutside(h)
  BY <1>1, WideFirst
<1>3. ASSUME NEW i \in 1 .. c
      PROVE  f[i] = AddChunk(f[i - 1], t, c - i)
  <2>1. CASE i = c
    BY <1>1, <2>1
  <2>2. CASE i # c
    <3> DEFINE k == c - i
    <3>1. /\ k \in 1 .. c - 1 /\ i \in 0 .. c /\ i - 1 \in 0 .. c /\ i - 1 # c /\ c - (i - 1) = k + 1
      BY <1>1, <2>2
    <3>2. f[i] = WideTo(h, t, c, k) /\ f[i - 1] = WideTo(h, t, c, k + 1)
      BY <2>2, <3>1
    <3> HIDE DEF k
    <3>3. NextTo(WideTo(h, t, c, k), WideTo(h, t, c, k + 1), t, k)
      BY <3>1, WideNext
    <3>4. QED
      BY <3>2, <3>3 DEF NextTo, k
  <2>3. QED
    BY <2>1, <2>2
<1>4. f = [i \in 0 .. c |-> f[i]] /\ f[c] = last
  BY <1>1
<1> HIDE DEF f
<1>5. f = Body(f)
  <2>1. \A i \in 0 .. c : i # 0 => i \in 1 .. c
    BY <1>1
  <2>2. QED
    BY <1>2, <1>3, <1>4, <2>1
<1> HIDE DEF Body
<1>6. at = Body(at)
  BY <1>5
<1>7. Alike(at, f, 0, c)
  <2>1. at[0] = WithOutside(h)
    <3>1. 0 \in 0 .. c
      BY <1>1
    <3> HIDE DEF at
    <3>2. QED
      BY <1>6, <3>1 DEF Body
  <2>2. ASSUME NEW i \in 0 .. c - 1, at[i] = f[i]
        PROVE  at[i + 1] = f[i + 1]
    <3>1. i + 1 \in 1 .. c /\ i + 1 \in 0 .. c /\ i + 1 # 0 /\ (i + 1) - 1 = i
      BY <1>1
    <3> HIDE DEF at
    <3>2. at[i + 1] = AddChunk(at[i], t, c - (i + 1))
      BY <1>6, <3>1 DEF Body
    <3>3. f[i + 1] = AddChunk(f[i], t, c - (i + 1))
      BY <1>3, <3>1
    <3>4. QED
      BY <2>2, <3>2, <3>3
  <2>3. QED
    BY <1>2, <2>1, <2>2 DEF Alike
<1>8. at[c] = last
  <2>1. \A i \in 0 .. c : at[i] = f[i]
    <3> HIDE DEF at
    <3> DEFINE z == 0
    <3>1. z \in Int /\ Alike(at, f, z, c) /\ c \in Int
      BY <1>1, <1>7
    <3> HIDE DEF z
    <3>2. \A i \in z .. c : at[i] = f[i]
      BY <3>1, Stepwise
    <3>3. QED
      BY <3>2 DEF z
  <2>2. c \in 0 .. c
    BY <1>1
  <2> HIDE DEF at, last
  <2>3. QED
    BY <1>4, <2>1, <2>2
<1>9. AddLoop(WithOutside(h), t, c) = DivideLoop(at[c], Outside, 0, Depth).heap
  BY DEF AddLoop, at, Body
<1> HIDE DEF at, last
<1>10. last.hdr[Outside].blockID = <<t, 0>> /\ PopAt(last, Outside, 0) = WithOutside(Planted(h, t, c))
  BY WideLast DEF last
<1>11. DivideLoop(last, Outside, 0, Depth) = DivideFrom(WithOutside(Planted(h, t, c)), t, 0, 0, Depth)
  BY <1>10 DEF DivideLoop
<1>12. QED
  BY <1>8, <1>9, <1>11

\* And that division is the one AddTree makes.
LEMMA AddLoopAdds ==
  ASSUME NEW h, NEW C, Listed(h, C), h.head[0] = NULL, NEW t \in Trees, C[t] = 0,
         NEW c \in ChunkCounts, h.flags[t] = [n \in Nodes |-> ZeroFlag]
  PROVE  AddTree(h, t, c) = Inside(AddLoop(WithOutside(h), t, c))
<1> DEFINE D == [C EXCEPT ![t] = c]
           g == Planted(h, t, c)
           z == 0
<1>1. Bare(h, t, c)
  BY DEF Bare, Listed
<1>2. Splittable(g, D, t, z, z, z)
  BY PlantedGood, Zeroth DEF Splittable
<1>3. /\ AddTree(h, t, c) = Split(g, <<t, z>>, z, Depth).heap /\ Block(t, z, z, z) = <<t, z>>
      /\ N(z, z, z) = z /\ Depth \in Levels /\ z <= Depth
  BY Zeroth, SlotsAre, AddTreeIs, Constants
<1>4. AddLoop(WithOutside(h), t, c) = DivideFrom(WithOutside(g), t, z, z, Depth).heap
  BY <1>1, AddLoopIs
<1> HIDE DEF D, g, z
<1>5. DivideFrom(WithOutside(g), t, N(z, z, z), z, Depth).heap =
        WithOutside(Split(g, Block(t, z, z, z), z, Depth).heap)
  BY <1>2, <1>3, DivideFromOutside
<1>6. AddTree(h, t, c) \in HeapType
  BY AddTreeGood DEF Listed
<1>7. Inside(WithOutside(AddTree(h, t, c))) = AddTree(h, t, c)
  BY <1>6, HeapShape, InsideOutside
<1>8. QED
  BY <1>3, <1>4, <1>5, <1>7

\* A tree that is not mapped has all its flags zero, as mmap () will return them.
Unmapped == \A t \in Trees : chunks[t] = 0 => flags[t] = [n \in Nodes |-> ZeroFlag]

\* The flags change in mapped trees only.
OthersKept(FL, C) == \A t \in Trees : C[t] = 0 => FL[t] = flags[t]

\* So trees that stay unmapped keep their flags zero.
LEMMA UnmappedNext ==
  ASSUME Unmapped, chunks \in [Trees -> ChunkCounts \cup {0}], OthersKept(flags', chunks'),
         \A t \in Trees : chunks'[t] = 0 => chunks[t] = 0
  PROVE  Unmapped'
<1>1. \A t \in Trees : chunks'[t] = 0 => flags'[t] = [n \in Nodes |-> ZeroFlag]
  BY DEF Unmapped, OthersKept
<1>2. QED
  BY <1>1 DEF Unmapped, Trees, Nodes, ZeroFlag, MaxChunks, Slots, InUseFlag, Flag

\* A tree with a chunk is mapped.
LEMMA NoChunk ==
  ASSUME NEW C, NEW t, NEW j \in 0 .. C[t] - 1
  PROVE  C[t] # 0
<1>1. SUFFICES ASSUME C[t] = 0 PROVE FALSE
  OBVIOUS
<1>2. 0 .. 0 - 1 = {}
  OBVIOUS
<1>3. QED
  BY <1>1, <1>2

\* A block is taken from a mapped tree, and only its flags change.
LEMMA TakeKeeps ==
  ASSUME NEW h, NEW C, Listed(h, C), Kept(h.flags, C), NEW d \in Levels, Candidates(h, d) # {}
  PROVE  \A u \in Trees : C[u] = 0 => Taken(h, d).heap.flags[u] = h.flags[u]
<1>1. Takes(h, C, BestLevel(h, d), d, Taken(h, d))
  BY TakeGood
<1>2. PICK t \in Trees : \E j \in 0 .. C[t] - 1 : \A u \in Trees \ {t} : Taken(h, d).heap.flags[u] = h.flags[u]
  BY <1>1 DEF Takes
<1>3. C[t] # 0
  BY <1>2, NoChunk
<1>4. QED
  BY <1>2, <1>3

\* Every step keeps the flags of the trees not mapped.
LEMMA UnmappedStep ==
  ASSUME Inv, Unmapped, [Next]_vars
  PROVE  Unmapped'
<1>1. /\ Listed(Heap, chunks) /\ Kept(Heap.flags, chunks) /\ Heap.flags = flags
      /\ chunks \in [Trees -> ChunkCounts \cup {0}]
  BY InvIs
<1>2. ASSUME UNCHANGED <<chunks, flags>>
      PROVE  Unmapped'
  BY <1>1, <1>2, UnmappedNext DEF OthersKept
<1>3. ASSUME NEW size \in 0 .. 2 ^ Depth + 1, AllocateFree(size)
      PROVE  Unmapped'
  <2> DEFINE d == RequestDepth(size)
             R == Taken(Heap, d)
  <2>1. ValidSize(size) /\ Candidates(Heap, d) # {} /\ HeapBecomes(R.heap) /\ UNCHANGED chunks
    BY <1>3 DEF AllocateFree, TakeFrom, Taken
  <2>2. d \in Levels
    BY <2>1, Requested, SlotsAre
  <2> HIDE DEF d
  <2>3. \A u \in Trees : chunks[u] = 0 => R.heap.flags[u] = Heap.flags[u]
    BY <1>1, <2>1, <2>2, TakeKeeps
  <2> HIDE DEF R
  <2>4. flags' = R.heap.flags
    BY <2>1 DEF HeapBecomes
  <2>5. QED
    BY <1>1, <2>1, <2>3, <2>4, UnmappedNext DEF OthersKept
<1>4. ASSUME NEW size \in 0 .. 2 ^ Depth + 1, AllocateFromNewTree(size)
      PROVE  Unmapped'
  <2> DEFINE d == RequestDepth(size)
             t == ntrees
  <2>1. ValidSize(size) /\ Candidates(Heap, d) = {} /\ t < MaxTrees
    BY <1>4 DEF AllocateFromNewTree
  <2>2. PICK c \in ChunkCounts : /\ chunks' = [chunks EXCEPT ![t] = c]
                                 /\ TakeFrom(AddTree(Heap, t, c), size)
    BY <1>4 DEF AllocateFromNewTree
  <2> DEFINE A == AddTree(Heap, t, c)
             D == [chunks EXCEPT ![t] = c]
             R == Taken(A, d)
  <2>3. d \in Levels /\ d \in Nat
    BY <2>1, Requested, SlotsAre DEF Levels
  <2>4. HeapBecomes(R.heap) /\ chunks' = D
    BY <2>2 DEF TakeFrom, Taken
  <2>5. t \in Trees /\ chunks[t] = 0
    BY <2>1, NextTree
  <2>6. Heap.head[0] = NULL
    BY <2>1, <2>3, NoRoots
  <2>7. D[t] = c /\ c # 0 /\ \A u \in Trees \ {t} : D[u] = chunks[u]
    BY <1>1, <2>5, Constants
  <2> HIDE DEF d, t
  <2>8. /\ Listed(A, D) /\ Kept(A.flags, D) /\ Candidates(A, d) # {}
        /\ \A u \in Trees \ {t} : A.flags[u] = Heap.flags[u]
    BY ZenonT(40), <1>1, <2>3, <2>5, <2>6, AddGood
  <2> HIDE DEF A, D
  <2>9. \A u \in Trees : D[u] = 0 => R.heap.flags[u] = A.flags[u]
    BY <2>3, <2>8, TakeKeeps
  <2> HIDE DEF R
  <2>10. flags' = R.heap.flags
    BY <2>4 DEF HeapBecomes
  <2>11. \A u \in Trees : D[u] = 0 => flags'[u] = flags[u] /\ chunks[u] = 0
    BY <1>1, <2>7, <2>8, <2>9, <2>10
  <2>12. QED
    BY <1>1, <2>4, <2>11, UnmappedNext DEF OthersKept
<1>5. ASSUME NEW b \in Handles \cup {NoBlock}, Deallocate(b)
      PROVE  Unmapped'
  <2> DEFINE R == Coalesce(Heap, <<b[1], b[2]>>)
             t == b[1]
             n == b[2]
  <2>1. Deallocatable(b) /\ HeapBecomes(Coalesce(Heap, b)) /\ UNCHANGED chunks
    BY <1>5 DEF Deallocate
  <2>2. /\ b = <<t, n>> /\ t \in Trees /\ n \in Nodes
        /\ n < chunks[t] * Slots /\ Local(n) # Slots - 1 /\ n # FlagsNode
        /\ ~flags[t][n].free /\ ~flags[t][n].inner
    BY <2>1, Given
  <2>3. HeapBecomes(R)
    BY <2>1, <2>2
  <2> HIDE DEF t, n
  <2>4. Gives(Heap, chunks, t, n, Coalesce(Heap, <<t, n>>))
    BY <1>1, <2>2, GiveGood
  <2>5. \E j \in 0 .. chunks[t] - 1 : TRUE
    BY <2>4 DEF Gives
  <2>6. chunks[t] # 0 /\ \A u \in Trees \ {t} : R.flags[u] = Heap.flags[u]
    BY <2>4, <2>5, NoChunk DEF Gives, t, n
  <2> HIDE DEF R
  <2>7. flags' = R.flags
    BY <2>3 DEF HeapBecomes
  <2>8. QED
    BY <1>1, <2>1, <2>6, <2>7, UnmappedNext DEF OthersKept
<1>6. QED
  BY <1>2, <1>3, <1>4, <1>5 DEF Next, vars, AllocateFails, DeallocateRejected

\* The pools that are added are linked as the loop of hmesh_tpool_add () links them.
LEMMA InvAdd ==
  ASSUME Inv, Unmapped
  PROVE  AddAgrees
<1>1. SUFFICES ASSUME ntrees < MaxTrees, head[0] = NULL, NEW c \in ChunkCounts
               PROVE  AddTree(Heap, ntrees, c) = Inside(AddLoop(WithOutside(Heap), ntrees, c))
  BY DEF AddAgrees
<1>2. /\ Listed(Heap, chunks) /\ Heap.flags = flags /\ Heap.head[0] = NULL
      /\ ntrees \in Trees /\ chunks[ntrees] = 0
  BY <1>1, InvIs, NextTree
<1>3. Heap.flags[ntrees] = [n \in Nodes |-> ZeroFlag]
  BY <1>2 DEF Unmapped
<1> DEFINE t == ntrees
<1> HIDE DEF t
<1>4. AddTree(Heap, t, c) = Inside(AddLoop(WithOutside(Heap), t, c))
  BY <1>2, <1>3, AddLoopAdds DEF t
<1>5. QED
  BY <1>4 DEF t

\* The pool that hmesh_tpool_add () links chunk by chunk, the last chunk first and the
\* first one through a header outside the pool, is the pool AddTree gives, whatever
\* smaller blocks are free in the pools before.  Unmapped is needed besides Inv: the
\* loop leaves the flags of the unused slots as mmap () returned them.
THEOREM AddingIsTheLoop == Spec => []AddAgrees
<1>1. Init => Inv /\ Unmapped
  BY InitInv DEF Init, Unmapped
<1>2. Inv /\ Unmapped /\ [Next]_vars => Inv' /\ Unmapped'
  BY StepInv, UnmappedStep
<1>3. Inv /\ Unmapped => AddAgrees
  BY InvAdd
<1>4. QED
  BY <1>1, <1>2, <1>3, PTL DEF Spec

(***************************************************************************)
(* The loop of hmesh_tpool_deallocate ().  The block at level d above page *)
(* q of chunk j has reached level a: the buddies below have left their     *)
(* lists and what has merged is marked.                                    *)
(***************************************************************************)
Buddies(t, j, q, a, d) == [l \in a + 1 .. d |-> Spot(t, j, l, Twin(Up(l, q)))]
\* The nodes that have merged: those above the page, and their buddies.
OnWay(n, j, q, a, d) == \E m \in a + 1 .. d : n = Over(j, m, q) \/ n = N(j, m, Twin(Up(m, q)))
\* Their flags.
Joined(F, j, q, a, d) == [n \in Nodes |-> IF OnWay(n, j, q, a, d) THEN Flag(Level(n), FALSE, TRUE) ELSE F[n]]
\* The heap then, and where the loop has got to.
JoinedTo(h, t, j, q, a, d) ==
  [heap  |-> WithFlagsOf(PopEach(h, Buddies(t, j, q, a, d)),
                         [h.flags EXCEPT ![t] = Joined(h.flags[t], j, q, a, d)]),
   node  |-> Over(j, a, q),
   level |-> a]

\* Going up as the code does it.
LEMMA ParentIs ==
  ASSUME NEW j \in Nat, NEW l \in Levels \ {0}, NEW q \in InChunk
  PROVE  Base(Over(j, l, q)) + (Local(Over(j, l, q)) - 1) \div 2 = Over(j, l - 1, q)
<1> DEFINE u == Up(l, q)
           k == l - 1
           v == Up(k, q)
<1>1. l \in Nat \ {0} /\ l \in Levels /\ k \in Nat /\ k \in Levels /\ k + 1 = l
  BY Constants DEF Levels
<1>2. u \in At(l) /\ v \in At(k)
  BY <1>1, UpAt
<1>3. v = u \div 2
  <2> DEFINE o == 1
  <2>1. o \in 0 .. l /\ l - o = k /\ 2 ^ o = 2
    BY <1>1, TwoToThe
  <2> HIDE DEF o, k
  <2>2. Up(l - o, q) = Up(l, q) \div 2 ^ o
    BY <1>1, <2>1, UpUp
  <2>3. QED
    BY <2>1, <2>2
<1>4. Local(N(j, l, u)) = 2 ^ l - 1 + u /\ Base(N(j, l, u)) = j * Slots
  BY <1>1, <1>2, NumberIs
<1>5. 2 ^ k \in Nat /\ 2 ^ k >= 1 /\ 2 ^ (k + 1) = 2 * 2 ^ k
  BY <1>1, TwoToThe
<1> DEFINE p == 2 ^ k
<1>6. 2 ^ l = 2 * p /\ p \in Nat /\ p >= 1 /\ u \in Nat
  BY <1>1, <1>2, <1>5, Widths DEF At
<1>7. N(j, k, v) = j * Slots + (p - 1 + v)
  BY DEF N
<1> HIDE DEF u, v, p, k
<1>8. (2 * p - 1 + u - 1) \div 2 = p - 1 + u \div 2
  BY <1>6
<1>9. Local(N(j, l, u)) - 1 = 2 * p - 1 + u - 1
  BY <1>4, <1>6
<1> DEFINE w == j * Slots
<1>10. Base(N(j, l, u)) + (Local(N(j, l, u)) - 1) \div 2 = w + (p - 1 + u \div 2)
  BY <1>4, <1>8, <1>9
<1>11. QED
  BY <1>3, <1>7, <1>10 DEF Over, u, v, k

\* What the nodes of one level above page q are numbered, and what they are not.
LEMMA WayIs ==
  ASSUME NEW j \in Nat, NEW q \in InChunk, NEW a \in Levels, NEW d \in Levels, a <= d,
         NEW m \in Levels, NEW x \in At(m), x = Up(m, q) \/ (m > 0 /\ x = Twin(Up(m, q)))
  PROVE  /\ OnWay(N(j, m, x), j, q, a, d) <=> m \in a + 1 .. d
         /\ Level(N(j, m, x)) = m
<1>1. Level(N(j, m, x)) = m
  BY LevelIs
<1>2. a \in Nat /\ d \in Nat /\ m \in Nat /\ \A l \in a + 1 .. d : l \in Levels \ {0} /\ l \in Levels
  BY Constants DEF Levels
<1>3. ASSUME m \in a + 1 .. d
      PROVE  OnWay(N(j, m, x), j, q, a, d)
  BY <1>3 DEF OnWay, Over
<1>4. ASSUME NEW l \in a + 1 .. d, N(j, m, x) = Over(j, l, q) \/ N(j, m, x) = N(j, l, Twin(Up(l, q)))
      PROVE  m = l
  BY <1>1, <1>2, <1>4, UpAt, Twins, LevelIs DEF Over
<1>5. QED
  BY <1>1, <1>3, <1>4 DEF OnWay

\* Before the first iteration nothing has merged.
LEMMA JoinedFirst ==
  ASSUME NEW F \in [Nodes -> FlagType], NEW j, NEW q, NEW d \in Levels
  PROVE  Joined(F, j, q, d, d) = F
<1>1. d + 1 .. d = {}
  BY Constants DEF Levels
<1>2. \A n : ~OnWay(n, j, q, d, d)
  BY <1>1 DEF OnWay
<1>3. QED
  BY <1>2 DEF Joined

\* The two marks of one iteration, and what they make of the flags.
Both(F, x, y, v) == [[F EXCEPT ![x] = v] EXCEPT ![y] = v]

JoinsTo(J, K, x, y, a) == Both(J, x, y, Flag(a, FALSE, TRUE)) = K

\* One level further up two more nodes are marked.
LEMMA JoinedNext ==
  ASSUME NEW c \in 0 .. MaxChunks, NEW j \in 0 .. c - 1, NEW q \in InChunk,
         NEW a \in Levels \ {0}, NEW d \in Levels, a <= d, NEW F \in [Nodes -> FlagType]
  PROVE  JoinsTo(Joined(F, j, q, a, d), Joined(F, j, q, a - 1, d),
                 N(j, a, Twin(Up(a, q))), Over(j, a, q), a)
<1> DEFINE b == a - 1
           x == N(j, a, Twin(Up(a, q)))
           y == Over(j, a, q)
           v == Flag(a, FALSE, TRUE)
           J == Joined(F, j, q, a, d)
           K == Joined(F, j, q, b, d)
<1>1. /\ j \in Nat /\ a \in Levels /\ a \in Nat /\ d \in Nat /\ b \in Levels /\ b <= d /\ a > 0
      /\ a \in b + 1 .. d /\ \A m \in b + 1 .. d : m = a \/ m \in a + 1 .. d
      /\ \A m \in a + 1 .. d : m \in b + 1 .. d
  BY Constants DEF Levels
<1>2. /\ Up(a, q) \in At(a) /\ Twin(Up(a, q)) \in At(a)
      /\ x \in Nodes /\ y \in Nodes
  BY <1>1, UpAt, Twins, InNodes DEF Over
<1>3. Level(x) = a /\ Level(y) = a
  BY <1>1, <1>2, LevelIs DEF Over
<1>4. ASSUME NEW n \in Nodes
      PROVE  OnWay(n, j, q, b, d) <=> OnWay(n, j, q, a, d) \/ n = x \/ n = y
  BY <1>1 DEF OnWay
<1>5. ASSUME NEW n \in Nodes
      PROVE  Both(J, x, y, v)[n] = K[n]
  BY <1>2, <1>3, <1>4 DEF Joined, Both, v
<1>6. Both(J, x, y, v) = [n \in Nodes |-> Both(J, x, y, v)[n]] /\ K = [n \in Nodes |-> K[n]]
  BY DEF Joined, Both
<1> HIDE DEF J, K, x, y, v
<1>7. Both(J, x, y, v) = K
  BY <1>5, <1>6
<1>8. QED
  BY <1>7 DEF J, K, x, y, v, b, JoinsTo

\* Two functions of flags that coalescing may leave are the same.
LEMMA OneCoalescing ==
  ASSUME NEW F, NEW G, NEW K, NEW j, NEW q, NEW a \in Levels, NEW d \in Levels, a <= d,
         Coalescing(G, F, j, q, a, d), Coalescing(K, F, j, q, a, d)
  PROVE  G = K
<1>1. G \in [Nodes -> FlagType] /\ K \in [Nodes -> FlagType]
  BY DEF Coalescing
<1>2. a \in Nat /\ d \in Nat /\ \A m \in a .. d : m = a \/ m \in a + 1 .. d
  BY Constants DEF Levels
<1>3. ASSUME NEW n \in Nodes
      PROVE  G[n] = K[n]
  <2>1. CASE n \notin Path(j, q, a, d)
    BY <2>1 DEF Coalescing
  <2>2. CASE n \in Path(j, q, a, d)
    <3>1. CASE n = Over(j, a, q)
      BY <3>1 DEF Coalescing
    <3>2. CASE \E m \in a + 1 .. d : n = Over(j, m, q) \/ n = N(j, m, Twin(Up(m, q)))
      <4>1. PICK m \in a + 1 .. d : n = Over(j, m, q) \/ n = N(j, m, Twin(Up(m, q)))
        BY <3>2
      <4>2. G[n] = Flag(m, FALSE, TRUE) /\ K[n] = Flag(m, FALSE, TRUE)
        BY <4>1 DEF Coalescing
      <4>3. QED
        BY <4>2
    <3>3. QED
      BY <1>2, <2>2, <3>1, <3>2 DEF Path
  <2>3. QED
    BY <2>1, <2>2
<1>4. QED
  BY <1>1, <1>3

\* The mark of the block that goes back.
Freed(J, n) == [J EXCEPT ![n].free = TRUE]

\* With that mark the flags are those Coalesce leaves.
LEMMA JoinedLast ==
  ASSUME NEW c \in 0 .. MaxChunks, NEW j \in 0 .. c - 1, NEW q \in InChunk,
         NEW k, NEW d \in Levels, k \in 0 .. d, NEW F \in [Nodes -> FlagType]
  PROVE  Freed(Joined(F, j, q, d - k, d), Over(j, d - k, q)) = CoalesceFlags(F, Over(j, d, q), d, k)
<1> DEFINE a == d - k
           J == Joined(F, j, q, a, d)
           top == Over(j, a, q)
           G == Freed(J, top)
<1>1. /\ j \in Nat /\ a \in Levels /\ a \in Nat /\ d \in Nat /\ a <= d
      /\ \A m \in a + 1 .. d : m \in Levels /\ m > 0 /\ m \in Levels \ {0} /\ m # a
      /\ a \notin a + 1 .. d
  BY Constants DEF Levels
<1> HIDE DEF a
<1>2. /\ Up(a, q) \in At(a) /\ top \in Nodes /\ ~OnWay(top, j, q, a, d)
  BY <1>1, UpAt, WayIs, InNodes DEF Over
<1>3. J \in [Nodes -> FlagType]
  BY <1>1, UpAt, Twins, LevelIs DEF OnWay, Over, Flag, FlagType, Joined
<1>4. /\ G \in [Nodes -> FlagType] /\ \A n \in Nodes \ {top} : G[n] = J[n]
      /\ G[top] = [F[top] EXCEPT !.free = TRUE]
  BY <1>2, <1>3 DEF Joined, FlagType, Freed
<1>5. Coalescing(G, F, j, q, a, d)
  <2>1. ASSUME NEW n \in Nodes \ Path(j, q, a, d)
        PROVE  G[n] = F[n]
    <3>1. n # top /\ ~OnWay(n, j, q, a, d)
      BY <1>1 DEF Path, OnWay
    <3>2. QED
      BY <1>4, <3>1 DEF Joined
  <2>2. ASSUME NEW m \in a + 1 .. d
        PROVE  G[Over(j, m, q)] = Flag(m, FALSE, TRUE) /\ G[N(j, m, Twin(Up(m, q)))] = Flag(m, FALSE, TRUE)
    <3>1. Up(m, q) \in At(m)
      BY <1>1, UpAt
    <3>2. Twin(Up(m, q)) \in At(m)
      BY <1>1, <3>1, Twins
    <3>3. /\ Over(j, m, q) \in Nodes /\ N(j, m, Twin(Up(m, q))) \in Nodes
          /\ Level(Over(j, m, q)) = m /\ Level(N(j, m, Twin(Up(m, q)))) = m
          /\ Level(top) = a
      BY <1>1, <1>2, <3>1, <3>2, InNodes, LevelIs DEF Over
    <3>4. Over(j, m, q) # top /\ N(j, m, Twin(Up(m, q))) # top
      BY <1>1, <3>3
    <3>5. OnWay(Over(j, m, q), j, q, a, d) /\ OnWay(N(j, m, Twin(Up(m, q))), j, q, a, d)
      BY DEF OnWay
    <3>6. J[Over(j, m, q)] = Flag(m, FALSE, TRUE) /\ J[N(j, m, Twin(Up(m, q)))] = Flag(m, FALSE, TRUE)
      BY <3>3, <3>5 DEF Joined
    <3> HIDE DEF G, J, top
    <3>7. QED
      BY <1>4, <3>3, <3>4, <3>6
  <2> HIDE DEF G
  <2>3. QED
    BY <1>4, <2>1, <2>2 DEF Coalescing
<1>6. Coalescing(CoalesceFlags(F, Over(j, d, q), d, k), F, j, q, a, d)
  BY CoalesceCoalesces DEF a
<1> HIDE DEF G
<1>7. G = CoalesceFlags(F, Over(j, d, q), d, k)
  BY <1>1, <1>5, <1>6, OneCoalescing
<1>8. QED
  BY <1>7 DEF G, J, top, a

\* The code marks two nodes and then unlinks one: the order does not matter.
LEMMA PopAtFlags ==
  ASSUME NEW g, Shaped(g), NEW FL, NEW x, NEW l
  PROVE  PopAt(WithFlagsOf(g, FL), x, l) = WithFlagsOf(PopAt(g, x, l), FL)
<1> DEFINE hd == [k \in Levels |-> g.head[k]]
           H == [a \in Addresses |-> g.hdr[a]]
           up == [hd EXCEPT ![l] = IF H[x].prev = NULL THEN H[x].next ELSE hd[l]]
<1>1. g = [flags |-> g.flags, head |-> hd, hdr |-> H]
  BY DEF Shaped
<1> HIDE DEF hd, H, up
<1>2. WithFlagsOf(g, FL) = [flags |-> FL, head |-> hd, hdr |-> H]
  BY <1>1 DEF WithFlagsOf
<1>3. PopAt(WithFlagsOf(g, FL), x, l) = [flags |-> FL, head |-> up, hdr |-> Popped(H, x)]
  <2>1. PopAt([flags |-> FL, head |-> hd, hdr |-> H], x, l) = HeadPopped(FL, hd, H, x, l)
    BY PopAtParts
  <2>2. HeadPopped(FL, hd, H, x, l) = [flags |-> FL, head |-> up, hdr |-> Popped(H, x)]
    BY DEF up, HeadPopped
  <2>3. QED
    BY <1>2, <2>1, <2>2
<1>4. PopAt(g, x, l) = [flags |-> g.flags, head |-> up, hdr |-> Popped(H, x)]
  <2> DEFINE G == g.flags
  <2>1. g = [flags |-> G, head |-> hd, hdr |-> H]
    BY <1>1
  <2> HIDE DEF G
  <2>2. PopAt([flags |-> G, head |-> hd, hdr |-> H], x, l) = [flags |-> G, head |-> up, hdr |-> Popped(H, x)]
    BY ZenonT(40), PopAtParts DEF up, HeadPopped
  <2>3. QED
    BY <2>1, <2>2 DEF G
<1>5. WithFlagsOf(PopAt(g, x, l), FL) = [flags |-> FL, head |-> up, hdr |-> Popped(H, x)]
  BY <1>4 DEF WithFlagsOf
<1>6. QED
  BY <1>3, <1>5

\* s is what one iteration makes of r.
Steps(s, r, t) == s = Join(r, t)

\* The buddies below level a, and what their lists hold.
BuddiesFree(h, t, j, q, a, d) == \A m \in a + 1 .. d : h.flags[t][N(j, m, Twin(Up(m, q)))].free

BuddiesGone(h, C, t, j, q, a, d) ==
  LET S == FreeAt(h.flags, C)
      gone == Buddies(t, j, q, a, d)
      P == PopEach(h, gone)
  IN  /\ DOMAIN gone = a + 1 .. d /\ DOMAIN gone \subseteq Levels
      /\ \A m \in DOMAIN gone : gone[m] \in S[m] /\ gone[m] = Spot(t, j, m, Twin(Up(m, q)))
      /\ P \in HeapType /\ P.flags = h.flags
      /\ Lists(P, [l \in Levels |-> IF l \in DOMAIN gone THEN S[l] \ {gone[l]} ELSE S[l]])

\* Free buddies are in the lists of their levels and can be taken off them.
LEMMA BuddiesListed ==
  ASSUME NEW h, NEW C, Listed(h, C), NEW t \in Trees, NEW j \in 0 .. C[t] - 1, NEW q \in InChunk,
         NEW a \in Levels, NEW d \in Levels, a <= d, BuddiesFree(h, t, j, q, a, d)
  PROVE  BuddiesGone(h, C, t, j, q, a, d)
<1> DEFINE S == FreeAt(h.flags, C)
           gone == Buddies(t, j, q, a, d)
<1>1. /\ h \in HeapType /\ Lists(h, S) /\ C \in [Trees -> ChunkCounts \cup {0}]
  BY Sound
<1>2. /\ DOMAIN gone = a + 1 .. d /\ \A m \in a + 1 .. d : gone[m] = Spot(t, j, m, Twin(Up(m, q)))
      /\ \A m \in a + 1 .. d : m \in Levels /\ m \in Levels \ {0}
  BY Constants DEF Buddies, Levels
<1>3. ASSUME NEW m \in a + 1 .. d
      PROVE  Spot(t, j, m, Twin(Up(m, q))) \in S[m]
  BY <1>1, <1>2, UpAt, Twins, FreeAtIs DEF FreeNode, BuddiesFree
<1> HIDE DEF S, gone
<1>4. DOMAIN gone \subseteq Levels /\ \A m \in DOMAIN gone : gone[m] \in S[m]
  BY <1>2, <1>3
<1>5. /\ PopEach(h, gone) \in HeapType /\ PopEach(h, gone).flags = h.flags
      /\ Lists(PopEach(h, gone), [l \in Levels |-> IF l \in DOMAIN gone THEN S[l] \ {gone[l]} ELSE S[l]])
  BY <1>1, <1>4, PopEachGood
<1>6. QED
  BY <1>2, <1>4, <1>5 DEF S, gone, BuddiesGone

\* The buddy, and the address of its header.
LEMMA BuddyIs ==
  ASSUME NEW j \in Nat, NEW q \in InChunk, NEW a \in Levels \ {0}, NEW t
  PROVE  /\ Sibling(Over(j, a, q)) = N(j, a, Twin(Up(a, q)))
         /\ Twin(Up(a, q)) \in At(a) /\ Up(a, q) \in At(a)
         /\ Address(<<t, N(j, a, Twin(Up(a, q)))>>, a) = Spot(t, j, a, Twin(Up(a, q)))
<1>1. a \in Levels /\ Up(a, q) \in At(a)
  BY UpAt
<1>2. Twin(Up(a, q)) \in At(a)
  BY <1>1, Twins
<1> DEFINE y == Twin(Up(a, q))
<1>3. Sibling(Over(j, a, q)) = N(j, a, Twin(Up(a, q)))
  BY <1>1, SiblingIs DEF Over
<1>4. Address(<<t, N(j, a, y)>>, a) = Spot(t, j, a, y)
  BY <1>1, <1>2, AddressIs DEF Spot
<1>5. QED
  BY <1>1, <1>2, <1>3, <1>4

\* While the buddy is free, the next closed form follows by an iteration.
LEMMA JoinsNext ==
  ASSUME NEW h, NEW C, Listed(h, C), NEW t \in Trees, NEW j \in 0 .. C[t] - 1, NEW q \in InChunk,
         NEW a \in Levels \ {0}, NEW d \in Levels, a <= d, BuddiesFree(h, t, j, q, a - 1, d)
  PROVE  Steps(JoinedTo(h, t, j, q, a - 1, d), JoinedTo(h, t, j, q, a, d), t)
<1> DEFINE b == a - 1
           S == FreeAt(h.flags, C)
           gone == Buddies(t, j, q, a, d)
           more == Buddies(t, j, q, b, d)
           P == PopEach(h, gone)
           F == h.flags[t]
           J == Joined(F, j, q, a, d)
           K == Joined(F, j, q, b, d)
           FL == [h.flags EXCEPT ![t] = J]
           FM == [h.flags EXCEPT ![t] = K]
           y == Twin(Up(a, q))
           buddy == N(j, a, y)
           node == Over(j, a, q)
           g == WithFlagsOf(P, FL)
           v == Flag(a, FALSE, TRUE)
           x == Spot(t, j, a, y)
           s == JoinedTo(h, t, j, q, a, d)
<1>1. /\ h \in HeapType /\ Lists(h, S) /\ C \in [Trees -> ChunkCounts \cup {0}] /\ C[t] \in 0 .. MaxChunks
      /\ h.flags \in [Trees -> [Nodes -> FlagType]] /\ F \in [Nodes -> FlagType] /\ j \in Nat
  BY Sound
<1>2. /\ a \in Levels /\ a \in Nat /\ a > 0 /\ d \in Nat /\ b \in Levels /\ b <= d /\ a \in b + 1 .. d
      /\ a \notin a + 1 .. d
      /\ \A m \in a + 1 .. d : m \in b + 1 .. d
      /\ b + 1 .. d = (a + 1 .. d) \cup {a}
  BY Constants DEF Levels
<1>3. /\ Sibling(node) = buddy /\ y \in At(a) /\ Up(a, q) \in At(a) /\ Address(<<t, buddy>>, a) = x
      /\ y = Twin(Up(a, q))
  BY <1>1, <1>2, BuddyIs
<1>4. BuddiesFree(h, t, j, q, a, d) /\ BuddiesFree(h, t, j, q, b, d) /\ F[buddy].free
  BY <1>2 DEF BuddiesFree
<1> HIDE DEF b
<1>5. /\ DOMAIN gone = a + 1 .. d /\ DOMAIN gone \subseteq Levels
      /\ \A m \in DOMAIN gone : gone[m] \in S[m] /\ gone[m] = Spot(t, j, m, Twin(Up(m, q)))
      /\ P \in HeapType /\ P.flags = h.flags
      /\ Lists(P, [l \in Levels |-> IF l \in DOMAIN gone THEN S[l] \ {gone[l]} ELSE S[l]])
  <2>1. BuddiesGone(h, C, t, j, q, a, d)
    BY <1>2, <1>4, BuddiesListed
  <2>2. QED
    BY <2>1 DEF BuddiesGone
<1>6. /\ DOMAIN more = b + 1 .. d
      /\ \A m \in DOMAIN more : more[m] \in S[m] /\ more[m] = Spot(t, j, m, Twin(Up(m, q)))
  <2>1. BuddiesGone(h, C, t, j, q, b, d)
    BY <1>2, <1>4, BuddiesListed
  <2>2. QED
    BY <2>1 DEF BuddiesGone
<1>7. Shaped(P) /\ Shaped(h)
  BY <1>1, <1>5, HeapShape
<1>8. Shaped(g) /\ g.flags = FL /\ FL[t] = J
  BY <1>1, <1>7, FlagsApart
<1>9. J[buddy] = F[buddy] /\ buddy \in Nodes
  BY <1>1, <1>2, <1>3, InNodes, WayIs DEF Joined
<1>10. Both(J, buddy, node, v) = K
  <2> DEFINE c == C[t]
  <2>1. c \in 0 .. MaxChunks /\ j \in 0 .. c - 1 /\ F \in [Nodes -> FlagType]
    BY <1>1
  <2> HIDE DEF c, F
  <2>2. JoinsTo(Joined(F, j, q, a, d), Joined(F, j, q, a - 1, d), N(j, a, Twin(Up(a, q))), Over(j, a, q), a)
    BY <1>2, <2>1, JoinedNext
  <2>3. QED
    BY <2>2 DEF JoinsTo, b
<1>11. s.heap = g /\ s.node = node /\ s.level = a
  BY DEF JoinedTo
<1> HIDE DEF s, g, FL, FM, J, K, P, F, S, gone, more, x, buddy, node, v, y
<1> DEFINE merged == [g EXCEPT !.flags[t][buddy] = v, !.flags[t][node] = v]
<1>12. merged = WithFlagsOf(g, [FL EXCEPT ![t] = K])
  <2>1. g = [flags |-> FL, head |-> [l \in Levels |-> g.head[l]], hdr |-> [z \in Addresses |-> g.hdr[z]]]
    BY <1>8 DEF Shaped
  <2> DEFINE J1 == [J EXCEPT ![buddy] = v]
             J2 == [J1 EXCEPT ![node] = v]
             F1 == [FL EXCEPT ![t] = J1]
  <2>2. [g EXCEPT !.flags[t][buddy] = v] = WithFlagsOf(g, F1)
    BY <1>8, <2>1 DEF WithFlagsOf
  <2>3. t \in DOMAIN FL
    BY <1>1 DEF FL
  <2>4. F1[t] = J1 /\ [F1 EXCEPT ![t] = J2] = [FL EXCEPT ![t] = J2]
    BY <2>3, Overwritten
  <2>5. merged = [WithFlagsOf(g, F1) EXCEPT !.flags[t][node] = v]
    BY <2>2
  <2>6. J2 = K
    BY <1>10 DEF Both
  <2> HIDE DEF J1, J2, F1
  <2>7. [WithFlagsOf(g, F1) EXCEPT !.flags[t][node] = v] = WithFlagsOf(g, [F1 EXCEPT ![t] = [F1[t] EXCEPT ![node] = v]])
    BY <2>1 DEF WithFlagsOf
  <2>8. [F1[t] EXCEPT ![node] = v] = K
    BY <2>4, <2>6 DEF J2
  <2>9. QED
    BY <2>4, <2>5, <2>6, <2>7, <2>8
<1>13. [FL EXCEPT ![t] = K] = FM
  <2>1. t \in DOMAIN h.flags
    BY <1>1
  <2> DEFINE G == h.flags
  <2>2. t \in DOMAIN G
    BY <2>1
  <2> HIDE DEF G
  <2>3. [[G EXCEPT ![t] = J] EXCEPT ![t] = K] = [G EXCEPT ![t] = K]
    BY <2>2, Overwritten
  <2>4. QED
    BY <2>3 DEF FL, FM, G
<1>14. merged = WithFlagsOf(P, FM)
  BY <1>7, <1>12, <1>13 DEF Shaped, WithFlagsOf, g
<1>15. PopAt(P, x, a) = PopEach(P, Alone(a, x))
  <2> DEFINE T == [l \in Levels |-> IF l \in DOMAIN gone THEN S[l] \ {gone[l]} ELSE S[l]]
  <2>1. x \in T[a]
    BY <1>2, <1>5, <1>6 DEF x, y
  <2>2. Lists(P, T)
    BY <1>5
  <2> HIDE DEF T
  <2>3. QED
    BY <1>2, <1>5, <2>1, <2>2, PopAtIs
<1>16. PopEach(P, Alone(a, x)) = PopEach(h, more)
  <2>1. /\ a \in Levels \ DOMAIN gone /\ DOMAIN more = DOMAIN gone \cup {a} /\ more[a] = x
        /\ \A m \in DOMAIN gone : more[m] = gone[m]
    BY <1>2, <1>5, <1>6 DEF x, y
  <2>2. PoppedToo(h, gone, a, more)
    BY <1>1, <1>5, <1>6, <2>1, PopMore
  <2>3. QED
    BY <2>1, <2>2 DEF P, PoppedToo
<1> HIDE DEF merged
<1>17. PopAt(merged, x, a) = WithFlagsOf(PopEach(h, more), FM)
  BY <1>7, <1>14, <1>15, <1>16, PopAtFlags
<1>18. Base(node) + (Local(node) - 1) \div 2 = Over(j, b, q)
  BY <1>1, <1>2, ParentIs DEF node, b
<1>19. Join(s, t) = [heap |-> PopAt(merged, x, a), node |-> Base(node) + (Local(node) - 1) \div 2, level |-> a - 1]
  BY <1>2, <1>3, <1>4, <1>8, <1>9, <1>11 DEF Join, merged, v
<1>20. JoinedTo(h, t, j, q, b, d) = [heap |-> WithFlagsOf(PopEach(h, more), FM), node |-> Over(j, b, q), level |-> b]
  BY DEF JoinedTo, more, FM, K, F
<1>21. QED
  BY <1>17, <1>18, <1>19, <1>20 DEF Steps, b, s

\* At a buddy that is not free, or at the root, an iteration changes nothing.
LEMMA JoinsStop ==
  ASSUME NEW h, NEW C, Listed(h, C), NEW t \in Trees, NEW j \in 0 .. C[t] - 1, NEW q \in InChunk,
         NEW a \in Levels, NEW d \in Levels, a <= d, BuddiesFree(h, t, j, q, a, d),
         a > 0 => ~h.flags[t][N(j, a, Twin(Up(a, q)))].free
  PROVE  Steps(JoinedTo(h, t, j, q, a, d), JoinedTo(h, t, j, q, a, d), t)
<1> DEFINE P == PopEach(h, Buddies(t, j, q, a, d))
           F == h.flags[t]
           J == Joined(F, j, q, a, d)
           FL == [h.flags EXCEPT ![t] = J]
           buddy == N(j, a, Twin(Up(a, q)))
           g == WithFlagsOf(P, FL)
           s == JoinedTo(h, t, j, q, a, d)
<1>1. /\ h \in HeapType /\ C[t] \in 0 .. MaxChunks /\ j \in Nat
      /\ h.flags \in [Trees -> [Nodes -> FlagType]] /\ a \in Nat /\ d \in Nat /\ a \notin a + 1 .. d
  BY Sound, Constants DEF Levels
<1>2. s.heap = g /\ s.node = Over(j, a, q) /\ s.level = a
  BY DEF JoinedTo
<1>3. g.flags = FL /\ FL[t] = J
  <2>1. FL[t] = J
    BY <1>1
  <2>2. Shaped(P)
    BY BuddiesListed, HeapShape DEF BuddiesGone
  <2> HIDE DEF FL, P
  <2>3. QED
    BY <2>1, <2>2, FlagsApart
<1>4. CASE a = 0
  BY <1>2, <1>4 DEF Steps, Join, s
<1>5. CASE a # 0
  <2>1. /\ Sibling(Over(j, a, q)) = buddy /\ Twin(Up(a, q)) \in At(a)
    BY <1>1, <1>5, BuddyIs
  <2>2. buddy \in Nodes
    BY <1>1, <2>1, InNodes
  <2>3. ~OnWay(buddy, j, q, a, d)
    BY <1>1, <1>5, <2>1, WayIs
  <2>4. ~J[buddy].free
    BY <1>1, <1>5, <2>2, <2>3 DEF Joined
  <2> HIDE DEF s, g, FL, J, buddy
  <2>5. ~s.heap.flags[t][Sibling(s.node)].free
    BY <1>2, <1>3, <2>1, <2>4
  <2>6. QED
    BY <2>5 DEF Steps, Join, s
<1>6. QED
  BY <1>4, <1>5

\* f goes through the iterations, and what is done after the last of them.
JoinIterates(f, h, t, n, d) ==
  /\ f = [x \in 0 .. d |-> f[x]] /\ f[0] = [heap |-> h, node |-> n, level |-> d]
  /\ \A x \in 1 .. d : f[x] = Join(f[x - 1], t)
PushedBack(e, t) ==
  PushAt([e.heap EXCEPT !.flags[t][e.node].free = TRUE],
         Address(<<t, e.node>>, e.level), <<t, e.node>>, e.level)

\* Whatever goes through its iterations ends as the loop ends.
LEMMA DeallocateLoopIs ==
  ASSUME NEW h, NEW t, NEW n, NEW d \in Nat, NEW f, JoinIterates(f, h, t, n, d)
  PROVE  DeallocateLoop(h, t, n, d) = PushedBack(f[d], t)
<1> DEFINE s0 == [heap |-> h, node |-> n, level |-> d]
           Body(g) == [x \in 0 .. d |-> IF x = 0 THEN s0 ELSE Join(g[x - 1], t)]
           at == CHOOSE g : g = Body(g)
<1>1. f = [x \in 0 .. d |-> f[x]] /\ f[0] = s0 /\ \A x \in 1 .. d : f[x] = Join(f[x - 1], t)
  BY DEF JoinIterates
<1> HIDE DEF s0
<1>2. f = Body(f)
  <2>1. \A x \in 0 .. d : x # 0 => x \in 1 .. d
    OBVIOUS
  <2>2. QED
    BY <1>1, <2>1
<1> HIDE DEF Body
<1>3. at = Body(at)
  BY <1>2
<1>4. Alike(at, f, 0, d)
  <2>1. at[0] = s0
    <3>1. 0 \in 0 .. d
      OBVIOUS
    <3> HIDE DEF at
    <3>2. QED
      BY <1>3, <3>1 DEF Body
  <2>2. ASSUME NEW x \in 0 .. d - 1, at[x] = f[x]
        PROVE  at[x + 1] = f[x + 1]
    <3>1. x + 1 \in 1 .. d /\ x + 1 \in 0 .. d /\ x + 1 # 0 /\ (x + 1) - 1 = x
      OBVIOUS
    <3> HIDE DEF at
    <3>2. at[x + 1] = Join(at[x], t)
      BY <1>3, <3>1 DEF Body
    <3>3. f[x + 1] = Join(f[x], t)
      BY <1>1, <3>1
    <3>4. QED
      BY <2>2, <3>2, <3>3
  <2> HIDE DEF at
  <2>3. QED
    BY <1>1, <2>1, <2>2 DEF Alike
<1>5. at[d] = f[d]
  <2> HIDE DEF at
  <2> DEFINE z == 0
  <2>1. z \in Int /\ d \in Int /\ Alike(at, f, z, d) /\ d \in z .. d
    BY <1>4
  <2> HIDE DEF z
  <2>2. QED
    BY <2>1, Stepwise
<1>6. DeallocateLoop(h, t, n, d) = PushedBack(at[d], t)
  BY DEF DeallocateLoop, PushedBack, at, Body, s0
<1> HIDE DEF at
<1>7. QED
  BY <1>5, <1>6

\* The nodes on the way up from node n, and their buddies.
AncestorsAre(n, j, d, q, k) == \A x \in 0 .. k : Ancestor(n, x) = Over(j, d - x, q)
SiblingsAre(n, j, d, q, k)  ==
  \A x \in 0 .. k - 1 : Sibling(Ancestor(n, x)) = N(j, d - x, Twin(Up(d - x, q)))

\* They are the nodes above the page, and the twins of those.
LEMMA WaySides ==
  ASSUME NEW j \in Nat, NEW d \in Levels, NEW q \in InChunk, NEW k \in 0 .. d
  PROVE  /\ AncestorsAre(Over(j, d, q), j, d, q, k)
         /\ SiblingsAre(Over(j, d, q), j, d, q, k)
<1> DEFINE n == Over(j, d, q)
<1>1. d \in Nat /\ d <= Depth /\ Depth \in Nat
  BY Widths, Constants
<1>2. ASSUME NEW x \in 0 .. k
      PROVE  Ancestor(n, x) = Over(j, d - x, q)
  BY <1>1, AncestorIs
<1>3. ASSUME NEW x \in 0 .. k - 1
      PROVE  Sibling(Ancestor(n, x)) = N(j, d - x, Twin(Up(d - x, q)))
  <2> DEFINE l == d - x
  <2>1. l \in Levels \ {0} /\ x \in 0 .. k
    BY <1>1 DEF Levels
  <2> HIDE DEF n
  <2>2. Ancestor(n, x) = Over(j, l, q)
    BY <1>2, <2>1
  <2> HIDE DEF l
  <2>3. Sibling(N(j, l, Up(l, q))) = N(j, l, Twin(Up(l, q)))
    BY <2>1, UpAt, SiblingIs
  <2>4. QED
    BY <2>2, <2>3 DEF Over, l
<1> HIDE DEF n
<1>4. AncestorsAre(n, j, d, q, k)
  BY <1>2 DEF AncestorsAre
<1>5. SiblingsAre(n, j, d, q, k)
  BY <1>3 DEF SiblingsAre
<1>6. QED
  BY <1>4, <1>5 DEF n

\* hmesh_tpool_deallocate () of any block that is out is Coalesce.
LEMMA DeallocateLoopCoalesces ==
  ASSUME NEW h, NEW C, Listed(h, C), NEW t \in Trees, NEW j \in 0 .. C[t] - 1,
         NEW d \in Levels, NEW q \in InChunk,
         ~h.flags[t][Over(j, d, q)].free, ~h.flags[t][Over(j, d, q)].inner
  PROVE  /\ h.flags[t][Over(j, d, q)].depth = d
         /\ Coalesce(h, <<t, Over(j, d, q)>>) = DeallocateLoop(h, t, Over(j, d, q), d)
<1> DEFINE n == Over(j, d, q)
           F == h.flags[t]
           k == Climb(h, <<t, n>>, d)
           a == d - k
           s(l) == JoinedTo(h, t, j, q, l, d)
           f == [x \in 0 .. d |-> IF x <= k THEN s(d - x) ELSE s(a)]
<1>1. /\ h \in HeapType /\ Tree(F, C[t]) /\ F \in [Nodes -> FlagType] /\ C[t] \in 0 .. MaxChunks
      /\ h.flags \in [Trees -> [Nodes -> FlagType]] /\ j \in Nat /\ d \in Nat
  BY Sound, Constants DEF Levels
<1>2. Up(d, q) \in At(d) /\ n \in Nodes /\ F[n].depth = d
  BY <1>1, UpAt, InNodes DEF Over, Tree, Depths
<1>3. /\ k \in 0 .. d
      /\ \A m \in d - k + 1 .. d : F[N(j, m, Twin(Up(m, q)))].free
      /\ d - k > 0 => ~F[N(j, d - k, Twin(Up(d - k, q)))].free
  BY <1>1, ClimbIs
<1> HIDE DEF k
<1>30. /\ \A x \in 0 .. k : Ancestor(n, x) = Over(j, d - x, q)
       /\ \A x \in 0 .. k - 1 : Sibling(Ancestor(n, x)) = N(j, d - x, Twin(Up(d - x, q)))
  BY <1>1, <1>3, WaySides DEF AncestorsAre, SiblingsAre
<1>4. /\ a \in 0 .. d /\ a \in Levels /\ a <= d /\ k \in Nat /\ k <= d
      /\ a > 0 => ~F[N(j, a, Twin(Up(a, q)))].free
      /\ \A l \in a .. d : l \in Levels /\ BuddiesFree(h, t, j, q, l, d)
  BY <1>1, <1>3, Constants DEF Levels, BuddiesFree
<1>5. ASSUME NEW l \in a + 1 .. d
      PROVE  s(l - 1) = Join(s(l), t)
  BY <1>1, <1>4, Constants, JoinsNext DEF Levels, Steps
<1>6. s(a) = Join(s(a), t)
  BY <1>1, <1>4, JoinsStop DEF Steps
<1>7. s(d) = [heap |-> h, node |-> n, level |-> d]
  <2>1. Buddies(t, j, q, d, d) = [l \in {} |-> Spot(t, j, l, Twin(Up(l, q)))]
    BY <1>1 DEF Buddies
  <2> DEFINE gone == Buddies(t, j, q, d, d)
  <2>2. DOMAIN gone = {}
    BY <2>1
  <2> HIDE DEF gone
  <2>3. PopEach(h, gone) = h
    <3>1. Shaped(h)
      BY <1>1, HeapShape
    <3>2. PopEach(h, gone) = [flags |-> h.flags, head |-> PopHead(h, gone), hdr |-> PopHdr(h, gone)]
      BY <3>1, PopParts
    <3>3. PopHead(h, gone) = [l \in Levels |-> h.head[l]]
      BY <2>2 DEF PopHead
    <3>4. ASSUME NEW x \in Addresses
          PROVE  PopHdr(h, gone)[x] = h.hdr[x]
      <4>1. h.hdr[x] \in HeaderType
        BY <1>1 DEF HeapType
      <4>2. ~After(h, gone, x) /\ ~Before(h, gone, x) /\ ~\E l \in DOMAIN gone : x = gone[l]
        BY <2>2 DEF After, Before
      <4> DEFINE e == h.hdr[x]
                 nx == NextOf(h, gone, x)
                 pv == PrevOf(h, gone, x)
      <4>3. PopHdr(h, gone)[x] = [e EXCEPT !.next = IF After(h, gone, x) THEN nx ELSE @,
                                           !.prev = IF Before(h, gone, x) THEN pv ELSE @]
        BY <4>2 DEF PopHdr
      <4> HIDE DEF e, nx, pv
      <4>4. [e EXCEPT !.next = IF After(h, gone, x) THEN nx ELSE @,
                      !.prev = IF Before(h, gone, x) THEN pv ELSE @] = e
        BY <4>1, <4>2 DEF HeaderType, e
      <4>5. QED
        BY <4>3, <4>4 DEF e
    <3>5. PopHdr(h, gone) = [x \in Addresses |-> h.hdr[x]]
      <4>1. PopHdr(h, gone) = [x \in Addresses |-> PopHdr(h, gone)[x]]
        BY DEF PopHdr
      <4>2. QED
        BY <3>4, <4>1
    <3>6. QED
      BY <3>1, <3>2, <3>3, <3>5 DEF Shaped
  <2>4. [h.flags EXCEPT ![t] = Joined(h.flags[t], j, q, d, d)] = h.flags
    BY <1>1, JoinedFirst
  <2>5. WithFlagsOf(h, h.flags) = h
    BY <1>1, HeapShape DEF Shaped, WithFlagsOf
  <2>6. QED
    BY <2>3, <2>4, <2>5 DEF JoinedTo, gone
<1>8. JoinIterates(f, h, t, n, d)
  <2>1. f = [x \in 0 .. d |-> f[x]]
    OBVIOUS
  <2>2. f[0] = s(d)
    BY <1>1, <1>3, <1>4
  <2>3. ASSUME NEW x \in 1 .. d
        PROVE  f[x] = Join(f[x - 1], t)
    <3>1. x - 1 \in 0 .. d /\ x \in 0 .. d
      BY <1>1
    <3>2. CASE x <= k
      <4>1. d - x = (d - (x - 1)) - 1 /\ d - (x - 1) \in a + 1 .. d /\ x - 1 <= k
        BY <1>1, <1>4, <3>2
      <4>2. f[x] = s(d - x) /\ f[x - 1] = s(d - (x - 1))
        BY <3>1, <3>2, <4>1
      <4> DEFINE l == d - (x - 1)
      <4>3. l \in a + 1 .. d /\ d - x = l - 1
        BY <4>1
      <4> HIDE DEF l, s, a, f
      <4>4. s(l - 1) = Join(s(l), t)
        BY <1>5, <4>3
      <4>5. QED
        BY <4>2, <4>3, <4>4 DEF l
    <3>3. CASE x > k
      BY <1>1, <1>4, <1>6, <3>1, <3>3
    <3>4. QED
      BY <1>1, <1>4, <3>2, <3>3
  <2> HIDE DEF s, f
  <2>4. QED
    BY <1>7, <2>1, <2>2, <2>3 DEF JoinIterates, s
<1>9. f[d] = s(a)
  BY <1>1, <1>4
<1> HIDE DEF f
<1>10. DeallocateLoop(h, t, n, d) = PushedBack(s(a), t)
  BY <1>1, <1>8, <1>9, DeallocateLoopIs
<1> DEFINE gone == Buddies(t, j, q, a, d)
           P == PopEach(h, gone)
           J == Joined(F, j, q, a, d)
           K == CoalesceFlags(F, n, d, k)
           top == Over(j, a, q)
           FL == [h.flags EXCEPT ![t] = J]
           FM == [h.flags EXCEPT ![t] = K]
           g == WithFlagsOf(P, FL)
           b == <<t, top>>
<1>11. Shaped(P) /\ P.flags = h.flags
  <2>1. a \in a .. d
    BY <1>1, <1>4
  <2>2. P \in HeapType /\ P.flags = h.flags
    <3>1. a \in Levels /\ a <= d /\ BuddiesFree(h, t, j, q, a, d)
      BY <1>4, <2>1
    <3> HIDE DEF a
    <3>2. BuddiesGone(h, C, t, j, q, a, d)
      BY <3>1, BuddiesListed
    <3>3. QED
      BY <3>2 DEF BuddiesGone
  <2>3. QED
    BY <2>2, HeapShape
<1>12. Freed(J, top) = K
  BY <1>1, <1>3, JoinedLast
<1>13. PushedBack(s(a), t) = PushAt([g EXCEPT !.flags[t][top].free = TRUE], Address(b, a), b, a)
  BY DEF PushedBack, JoinedTo
<1>14. [g EXCEPT !.flags[t][top].free = TRUE] = WithFlagsOf(P, FM)
  <2>1. P = [flags |-> P.flags, head |-> [l \in Levels |-> P.head[l]], hdr |-> [z \in Addresses |-> P.hdr[z]]]
    BY <1>11 DEF Shaped
  <2>2. g = [flags |-> FL, head |-> [l \in Levels |-> P.head[l]], hdr |-> [z \in Addresses |-> P.hdr[z]]]
    BY <2>1 DEF WithFlagsOf
  <2>3. [FL EXCEPT ![t] = Freed(J, top)] = FM /\ FL[t] = J
    <3> DEFINE G == h.flags
    <3>1. t \in DOMAIN G
      BY <1>1
    <3> HIDE DEF G, J, top, K
    <3>2. [[G EXCEPT ![t] = J] EXCEPT ![t] = K] = [G EXCEPT ![t] = K] /\ [G EXCEPT ![t] = J][t] = J
      BY <3>1, Overwritten
    <3>3. QED
      BY <1>12, <3>2 DEF G
  <2> HIDE DEF g, P, FL, FM, J, top
  <2>4. [g EXCEPT !.flags[t][top].free = TRUE] =
          [flags |-> [FL EXCEPT ![t] = Freed(FL[t], top)], head |-> [l \in Levels |-> P.head[l]],
           hdr |-> [z \in Addresses |-> P.hdr[z]]]
    <3> DEFINE X == [l \in Levels |-> P.head[l]]
               Y == [z \in Addresses |-> P.hdr[z]]
    <3>1. g = [flags |-> FL, head |-> X, hdr |-> Y]
      BY <2>2
    <3> HIDE DEF X, Y
    <3>2. [g EXCEPT !.flags[t][top].free = TRUE] =
            [flags |-> [FL EXCEPT ![t] = Freed(FL[t], top)], head |-> X, hdr |-> Y]
      <4> DEFINE Q == [FL EXCEPT ![t][top].free = TRUE]
      <4>1. Q = [FL EXCEPT ![t] = Freed(FL[t], top)]
        BY DEF Freed
      <4>2. [g EXCEPT !.flags[t][top].free = TRUE] = [g EXCEPT !.flags = Q]
        BY <3>1
      <4> HIDE DEF Q
      <4>3. [g EXCEPT !.flags = Q] = [flags |-> Q, head |-> X, hdr |-> Y]
        BY <3>1
      <4>4. QED
        BY <4>1, <4>2, <4>3
    <3>3. QED
      BY <3>2 DEF X, Y
  <2>5. WithFlagsOf(P, FM) = [flags |-> FM, head |-> [l \in Levels |-> P.head[l]],
                              hdr |-> [z \in Addresses |-> P.hdr[z]]]
    BY <2>1 DEF WithFlagsOf
  <2>6. QED
    BY <2>3, <2>4, <2>5
<1> HIDE DEF P, FM, b, a
<1>15. PushAt(WithFlagsOf(P, FM), Address(b, a), b, a) = PushEach(WithFlagsOf(P, FM), Alone(a, b))
  BY <1>4, <1>11, FlagsApart, PushAtIs
<1>16. Coalesce(h, <<t, n>>) = PushEach(WithFlagsOf(P, FM), Alone(a, b))
  <2>1. Coalesce(h, <<t, n>>) =
           PushEach([PopEach(h, Gone(t, n, d, k)) EXCEPT !.flags[t] = K],
                    [l \in {d - k} |-> <<t, Ancestor(n, k)>>])
    BY <1>2, CoalesceIs DEF k
  <2>2. Ancestor(n, k) = top
    BY <1>4, <1>30 DEF a
  <2>3. Gone(t, n, d, k) = gone
    <3>1. ASSUME NEW l \in a + 1 .. d
          PROVE  Address(<<t, Sibling(Ancestor(n, d - l))>>, l) = Spot(t, j, l, Twin(Up(l, q)))
      <4>1. d - l \in 0 .. k - 1 /\ d - (d - l) = l /\ l \in Levels \ {0}
        BY <1>1, <1>4, Constants DEF a, Levels
      <4>2. Sibling(Ancestor(n, d - l)) = N(j, l, Twin(Up(l, q)))
        <5> HIDE DEF n
        <5>1. \A x \in 0 .. k - 1 : Sibling(Ancestor(n, x)) = N(j, d - x, Twin(Up(d - x, q)))
          BY <1>30
        <5> DEFINE x == d - l
        <5>2. x \in 0 .. k - 1 /\ d - x = l
          BY <4>1
        <5> HIDE DEF x
        <5>3. Sibling(Ancestor(n, x)) = N(j, l, Twin(Up(l, q)))
          BY <5>1, <5>2
        <5>4. QED
          BY <5>3 DEF x
      <4>3. QED
        BY <1>1, <4>1, <4>2, BuddyIs
    <3>2. QED
      BY <3>1 DEF Gone, Buddies, a
  <2>4. [P EXCEPT !.flags[t] = K] = WithFlagsOf(P, FM)
    <3>1. P = [flags |-> h.flags, head |-> [l \in Levels |-> P.head[l]], hdr |-> [z \in Addresses |-> P.hdr[z]]]
      BY <1>11 DEF Shaped
    <3> DEFINE X == [l \in Levels |-> P.head[l]]
               Y == [z \in Addresses |-> P.hdr[z]]
               G == h.flags
    <3>2. P = [flags |-> G, head |-> X, hdr |-> Y]
      BY <3>1
    <3> HIDE DEF X, Y, G, K
    <3>3. [P EXCEPT !.flags[t] = K] = [flags |-> [G EXCEPT ![t] = K], head |-> X, hdr |-> Y]
      BY <3>2
    <3>4. WithFlagsOf(P, [G EXCEPT ![t] = K]) = [flags |-> [G EXCEPT ![t] = K], head |-> X, hdr |-> Y]
      BY <3>2 DEF WithFlagsOf
    <3>5. QED
      BY <3>3, <3>4 DEF FM, G
  <2>5. QED
    BY <2>1, <2>2, <2>3, <2>4 DEF Alone, P, a, b
<1>17. QED
  BY <1>2, <1>10, <1>13, <1>14, <1>15, <1>16 DEF n
(***************************************************************************)
(* The loops of hmesh_tpool_allocate () and hmesh_tpool_allocate_general ().*)
(***************************************************************************)

\* One step of the walk up the levels changes nothing but the level it looks at.
LEMMA BestSteps ==
  ASSUME NEW h, NEW l \in Nat
  PROVE  /\ h.head[l] # NULL => Candidates(h, l) # {} /\ BestLevel(h, l) = l
         /\ h.head[l] = NULL /\ l = 0 => Candidates(h, l) = {}
         /\ h.head[l] = NULL /\ l # 0 => Candidates(h, l) = Candidates(h, l - 1)
<1>1. ASSUME h.head[l] # NULL
      PROVE  Candidates(h, l) # {} /\ BestLevel(h, l) = l
  BY <1>1 DEF Candidates, BestLevel
<1>2. ASSUME h.head[l] = NULL, l = 0
      PROVE  Candidates(h, l) = {}
  BY <1>2 DEF Candidates
<1>3. ASSUME h.head[l] = NULL, l # 0
      PROVE  Candidates(h, l) = Candidates(h, l - 1)
  BY <1>3 DEF Candidates
<1>4. QED
  BY <1>1, <1>2, <1>3

\* hmesh_tpool_allocate () goes up to the level BestLevel chooses, or finds none.
LEMMA LevelLoopChooses ==
  ASSUME NEW h, NEW d \in Nat
  PROVE  LevelLoop(h, d) = IF Candidates(h, d) = {} THEN -1 ELSE BestLevel(h, d)
<1> DEFINE Best(l) == IF Candidates(h, l) = {} THEN -1 ELSE BestLevel(h, l)
           f == [l \in 0 .. d |-> Best(l)]
           Body(g) == [l \in 0 .. d |-> IF h.head[l] # NULL THEN l
                                        ELSE IF l = 0 THEN -1 ELSE g[l - 1]]
           at == CHOOSE g : g = Body(g)
<1>1. \A l \in 0 .. d : h.head[l] # NULL => Best(l) = l
  BY BestSteps
<1>2. \A l \in 0 .. d : h.head[l] = NULL /\ l = 0 => Best(l) = -1
  BY BestSteps
<1>3. \A l \in 0 .. d : h.head[l] = NULL /\ l # 0 => Best(l) = Best(l - 1)
  <2>1. ASSUME NEW l \in 0 .. d, h.head[l] = NULL, l # 0
        PROVE  Best(l) = Best(l - 1)
    <3>1. Candidates(h, l) = Candidates(h, l - 1)
      BY <2>1, BestSteps
    <3>2. QED
      BY <3>1 DEF BestLevel
  <2>2. QED
    BY <2>1
<1> HIDE DEF Best
<1>4. f = Body(f)
  BY <1>1, <1>2, <1>3
<1> HIDE DEF Body
<1>5. at = Body(at)
  BY <1>4
<1>6. Alike(at, f, 0, d)
  <2>1. \A l \in 0 .. d : at[l] = IF h.head[l] # NULL THEN l ELSE IF l = 0 THEN -1 ELSE at[l - 1]
    BY <1>5 DEF Body
  <2>2. \A l \in 0 .. d : f[l] = IF h.head[l] # NULL THEN l ELSE IF l = 0 THEN -1 ELSE f[l - 1]
    BY <1>4 DEF Body
  <2> HIDE DEF at, f
  <2>3. at[0] = f[0]
    BY <2>1, <2>2
  <2>4. ASSUME NEW x \in 0 .. d - 1, at[x] = f[x]
        PROVE  at[x + 1] = f[x + 1]
    BY <2>1, <2>2, <2>4
  <2>5. QED
    BY <2>3, <2>4 DEF Alike
<1>7. at[d] = f[d]
  <2> HIDE DEF at, f
  <2> DEFINE z == 0
  <2>1. z \in Int /\ d \in Int /\ Alike(at, f, z, d) /\ d \in z .. d
    BY <1>6
  <2> HIDE DEF z
  <2>2. QED
    BY <2>1, Stepwise
<1>8. LevelLoop(h, d) = at[d]
  BY DEF LevelLoop, at, Body
<1>9. f[d] = Best(d)
  OBVIOUS
<1> HIDE DEF at, f
<1>10. QED
  BY <1>7, <1>8, <1>9 DEF Best

\* f goes through the shifts of hmesh_tpool_allocate_general ().
ShiftIterates(f, size) ==
  /\ f = [i \in 0 .. size |-> f[i]] /\ f[0] = [n |-> size, r |-> 0, level |-> 0]
  /\ \A i \in 1 .. size : f[i] = Shift(f[i - 1])

\* Whatever goes through the shifts ends as the loop ends.
LEMMA SizeLoopIs ==
  ASSUME NEW size \in Nat, NEW f, ShiftIterates(f, size)
  PROVE  SizeLoop(size) = f[size]
<1> DEFINE s0 == [n |-> size, r |-> 0, level |-> 0]
           Body(g) == [i \in 0 .. size |-> IF i = 0 THEN s0 ELSE Shift(g[i - 1])]
           at == CHOOSE g : g = Body(g)
<1>1. /\ f = [i \in 0 .. size |-> f[i]] /\ f[0] = s0
      /\ \A i \in 1 .. size : f[i] = Shift(f[i - 1])
  BY DEF ShiftIterates
<1> HIDE DEF s0
<1>2. f = Body(f)
  <2>1. \A i \in 0 .. size : i # 0 => i \in 1 .. size
    OBVIOUS
  <2>2. QED
    BY <1>1, <2>1
<1> HIDE DEF Body
<1>3. at = Body(at)
  BY <1>2
<1>4. Alike(at, f, 0, size)
  <2>1. at[0] = s0
    <3>1. 0 \in 0 .. size
      OBVIOUS
    <3> HIDE DEF at
    <3>2. QED
      BY <1>3, <3>1 DEF Body
  <2>2. ASSUME NEW x \in 0 .. size - 1, at[x] = f[x]
        PROVE  at[x + 1] = f[x + 1]
    <3>1. x + 1 \in 1 .. size /\ x + 1 \in 0 .. size /\ x + 1 # 0 /\ (x + 1) - 1 = x
      OBVIOUS
    <3> HIDE DEF at
    <3>2. at[x + 1] = Shift(at[x])
      BY <1>3, <3>1 DEF Body
    <3>3. f[x + 1] = Shift(f[x])
      BY <1>1, <3>1
    <3>4. QED
      BY <2>2, <3>2, <3>3
  <2> HIDE DEF at
  <2>3. QED
    BY <1>1, <2>1, <2>2 DEF Alike
<1>5. at[size] = f[size]
  <2> HIDE DEF at
  <2> DEFINE z == 0
  <2>1. z \in Int /\ size \in Int /\ Alike(at, f, z, size) /\ size \in z .. size
    BY <1>4
  <2> HIDE DEF z
  <2>2. QED
    BY <2>1, Stepwise
<1>6. SizeLoop(size) = at[size]
  BY DEF SizeLoop, at, Body, s0
<1> HIDE DEF at
<1>7. QED
  BY <1>5, <1>6

\* A positive size is an odd number shifted left, and the shift is less than the size.
LEMMA OddPart ==
  ASSUME NEW size \in Nat \ {0}
  PROVE  \E c \in Nat \ {0} :
           LET k == LowestBit(size)
           IN  /\ k \in Nat /\ k < size /\ size = 2 ^ k * c /\ size \div 2 ^ k = c /\ c % 2 = 1
<1> DEFINE k == LowestBit(size)
           m == 2 ^ k
           c == size \div m
<1>1. k \in 0 .. size /\ size % 2 ^ k = 0 /\ size % 2 ^ (k + 1) # 0
  BY Divides DEF LowestBit
<1> HIDE DEF k
<1>2. k \in Nat
  BY <1>1
<1>3. m \in Nat \ {0} /\ 2 ^ (k + 1) = 2 * m /\ k < m
  BY <1>2, TwoToThe, Exceeds
<1>4. size % m = 0 /\ size % (2 * m) # 0
  BY <1>1, <1>3
<1> HIDE DEF m
<1>5. c \in Int /\ size = m * c
  <2>1. size \div m \in Int /\ size % m \in 0 .. m - 1 /\ size = m * (size \div m) + (size % m)
    BY <1>3, Division
  <2> DEFINE e == m * (size \div m)
  <2>2. e \in Int
    BY <1>3, <2>1
  <2> HIDE DEF e
  <2>3. size = e + 0
    BY <1>4, <2>1 DEF e
  <2>4. QED
    BY <2>1, <2>2, <2>3 DEF e
<1>6. c >= 1
  <2> HIDE DEF c
  <2>1. SUFFICES ASSUME c <= 0
                 PROVE  FALSE
    BY <1>5
  <2> DEFINE e == m * c
  <2>2. m * c <= 0
    BY <1>3, <1>5, <2>1
  <2>3. QED
    BY <1>5, <2>2
<1>7. m <= size
  BY <1>3, <1>5, <1>6
<1>8. c % 2 = 1
  <2> HIDE DEF c
  <2>1. SUFFICES ASSUME c % 2 = 0
                 PROVE  FALSE
    BY <1>5
  <2>2. PICK e \in Int : c = 2 * e
    BY <1>5, <2>1
  <2> DEFINE M == 2 * m
             z == 0
  <2>3. M \in Nat \ {0} /\ z \in 0 .. M - 1 /\ size = M * e + z /\ size \in Nat
    BY <1>3, <1>5, <2>2
  <2> HIDE DEF M, z
  <2>4. size % M = z
    BY <2>3, Quotient
  <2>5. QED
    BY <1>4, <2>4 DEF M, z
<1>9. c \in Nat \ {0} /\ k < size /\ size = 2 ^ k * c /\ size \div 2 ^ k = c
  BY <1>2, <1>3, <1>5, <1>6, <1>7 DEF m
<1> HIDE DEF c
<1>10. QED
  BY <1>2, <1>8, <1>9 DEF k

\* The number, the bit shifted out last and the shifts so far, after i shifts of 2^k * c.
Shifted(c, k, i) ==
  IF i <= k THEN [n |-> 2 ^ (k - i) * c, r |-> 0, level |-> i]
  ELSE [n |-> c \div 2, r |-> 1, level |-> k + 1]

\* Each shift, the last one repeated.
LEMMA ShiftedNext ==
  ASSUME NEW c \in Nat \ {0}, c % 2 = 1, NEW k \in Nat, NEW i \in Nat
  PROVE  Shifted(c, k, i + 1) = Shift(Shifted(c, k, i))
<1>1. CASE i < k
  <2> DEFINE m == 2 ^ (k - (i + 1))
             e == m * c
             x == 2 ^ (k - i) * c
  <2>1. k - (i + 1) \in Nat /\ (k - (i + 1)) + 1 = k - i /\ i <= k /\ i + 1 <= k
    BY <1>1
  <2>2. m \in Nat \ {0} /\ 2 ^ (k - i) = 2 * m
    BY <2>1, TwoToThe
  <2>3. e \in Nat \ {0}
    BY <2>2
  <2>4. x = 2 * e
    BY <2>2
  <2>5. Shifted(c, k, i) = [n |-> x, r |-> 0, level |-> i]
        /\ Shifted(c, k, i + 1) = [n |-> e, r |-> 0, level |-> i + 1]
    BY <2>1 DEF Shifted
  <2> HIDE DEF e, x, m
  <2>6. x # 0 /\ x \div 2 = e /\ x % 2 = 0
    BY <2>3, <2>4
  <2>7. QED
    BY <2>5, <2>6 DEF Shift
<1>2. CASE i = k
  BY <1>2 DEF Shifted, Shift
<1>3. CASE i > k
  BY <1>3 DEF Shifted, Shift
<1>4. QED
  BY <1>1, <1>2, <1>3

\* The loop stops after the lowest set bit, before the size has run out.
LEMMA SizeLoopStops ==
  ASSUME NEW c \in Nat \ {0}, c % 2 = 1, NEW k \in Nat, NEW size \in Nat, size = 2 ^ k * c, k < size
  PROVE  SizeLoop(size) = [n |-> c \div 2, r |-> 1, level |-> k + 1]
<1> DEFINE f == [i \in 0 .. size |-> Shifted(c, k, i)]
<1>1. f[0] = [n |-> size, r |-> 0, level |-> 0]
  BY DEF Shifted
<1>2. ASSUME NEW i \in 1 .. size
      PROVE  f[i] = Shift(f[i - 1])
  <2> DEFINE x == i - 1
  <2>1. x \in Nat /\ x \in 0 .. size /\ i \in 0 .. size /\ i = x + 1
    OBVIOUS
  <2> HIDE DEF x
  <2>2. Shifted(c, k, x + 1) = Shift(Shifted(c, k, x))
    BY <2>1, ShiftedNext
  <2>3. QED
    BY <2>1, <2>2 DEF x
<1>3. f = [i \in 0 .. size |-> f[i]]
  OBVIOUS
<1>4. f[size] = [n |-> c \div 2, r |-> 1, level |-> k + 1]
  BY DEF Shifted
<1> HIDE DEF f
<1>5. SizeLoop(size) = f[size]
  BY <1>1, <1>2, <1>3, SizeLoopIs DEF ShiftIterates
<1>6. QED
  BY <1>4, <1>5

\* So it accepts the powers of two up to 2^Depth and gives the level of their blocks.
LEMMA RequestLoopDecides ==
  ASSUME NEW size \in Nat
  PROVE  RequestLoop(size) = IF ValidSize(size) THEN RequestDepth(size) ELSE -1
<1>1. CASE size = 0
  BY <1>1 DEF RequestLoop, ValidSize
<1>2. CASE size # 0
  <2> DEFINE k == LowestBit(size)
  <2>1. PICK c \in Nat \ {0} : /\ k \in Nat /\ k < size /\ size = 2 ^ k * c
                               /\ size \div 2 ^ k = c /\ c % 2 = 1
    BY <1>2, OddPart
  <2> HIDE DEF k
  <2>2. SizeLoop(size) = [n |-> c \div 2, r |-> 1, level |-> k + 1]
    BY <2>1, SizeLoopStops
  <2>3. c \div 2 # 0 <=> c # 1
    BY <2>1
  <2>4. (k + 1) - 1 = k /\ Depth \in Nat
    BY <2>1, Constants
  <2>5. RequestLoop(size) = IF c # 1 \/ k > Depth THEN -1 ELSE Depth - k
    BY <1>2, <2>2, <2>3, <2>4 DEF RequestLoop
  <2>6. ValidSize(size) <=> c = 1 /\ k <= Depth
    BY <1>2, <2>1 DEF ValidSize, k
  <2>7. RequestDepth(size) = Depth - k
    BY DEF RequestDepth, k
  <2>8. QED
    BY <2>1, <2>4, <2>5, <2>6, <2>7
<1>3. QED
  BY <1>1, <1>2

\* The loops agree with the closed forms wherever the invariant of the pool holds.
LEMMA InvLoops ==
  ASSUME Inv
  PROVE  LoopsAgree
<1>1. Listed(Heap, chunks)
  BY InvIs
<1>2. ASSUME NEW level \in Levels, NEW depth \in level .. Depth, head[level] # NULL
      PROVE  Divide(Heap, head[level], level, depth) = DivideLoop(Heap, head[level], level, depth)
  BY <1>1, <1>2, Constants, DivideLoopIs DEF Levels, Heap
<1>3. ASSUME NEW b \in OwnedBlocks
      PROVE  Coalesce(Heap, b) = DeallocateLoop(Heap, b[1], b[2], FlagOf(b).depth)
  <2>1. b \in Blocks /\ ~FlagOf(b).free /\ ~FlagOf(b).inner
    BY DEF OwnedBlocks
  <2>2. PICK t \in Trees : \E j \in 0 .. chunks[t] - 1, l \in Levels, q \in InChunk :
               b = Block(t, j, l, Up(l, q))
    BY <2>1, BlockOf
  <2>3. PICK j \in 0 .. chunks[t] - 1, l \in Levels, q \in InChunk : b = Block(t, j, l, Up(l, q))
    BY <2>2
  <2> DEFINE n == Over(j, l, q)
  <2>4. b = <<t, n>> /\ b[1] = t /\ b[2] = n
    BY <2>3 DEF Block, Over
  <2>5. Heap.flags = flags /\ FlagOf(b) = flags[t][n]
    BY <2>4 DEF Heap, FlagOf
  <2>6. ~Heap.flags[t][n].free /\ ~Heap.flags[t][n].inner
    BY <2>1, <2>5
  <2>7. /\ Heap.flags[t][n].depth = l
        /\ Coalesce(Heap, <<t, n>>) = DeallocateLoop(Heap, t, n, l)
    BY <1>1, <2>6, DeallocateLoopCoalesces
  <2> HIDE DEF n
  <2>8. QED
    BY <2>4, <2>5, <2>7
<1>4. ASSUME NEW size \in 0 .. 2 ^ (Depth + 2)
      PROVE  RequestLoop(size) = IF ValidSize(size) THEN RequestDepth(size) ELSE -1
  BY RequestLoopDecides
<1>5. ASSUME NEW depth \in Levels
      PROVE  LevelLoop(Heap, depth) =
               IF Candidates(Heap, depth) = {} THEN -1 ELSE BestLevel(Heap, depth)
  BY Constants, LevelLoopChooses DEF Levels
<1>6. QED
  BY <1>2, <1>3, <1>4, <1>5 DEF LoopsAgree

\* In every reachable state the loops of the pool, iteration by iteration, leave what
\* the closed forms of the model say: dividing the head of any list down to any level,
\* coalescing any block that is out, understanding a request, choosing its level.
THEOREM LoopsAreTheOperators == Spec => []LoopsAgree
<1>1. Inv => LoopsAgree
  BY InvLoops
<1>2. QED
  BY <1>1, Invariance, PTL
=============================================================================
