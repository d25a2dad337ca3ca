-------------------------- MODULE HashTableProofs --------------------------
(***************************************************************************)
(* The hash table implements a map of keys to symbols, for every hash,     *)
(* every number of buckets and every set of keys that are too long to be   *)
(* copied.                                                                 *)
(*                                                                         *)
(* The map depends only on which nodes the table holds.  So what has to be *)
(* shown of an operation is which nodes the table holds after it (a        *)
(* doubling: the same), and that a search meets the node of its key, for   *)
(* which the node must be in the bucket that its hash selects.             *)
(***************************************************************************)
EXTENDS HashTable, FiniteSetTheorems, WellFoundedInduction, TLAPS

(***************************************************************************)
(* Arithmetic: powers of two, and remainders by n and by 2 * n.            *)
(***************************************************************************)
\* A set of k + 1 elements has twice the subsets of one of k.
LEMMA TwoToThe ==
  ASSUME NEW k \in Nat
  PROVE  2 ^ k \in Nat /\ 2 ^ k >= 1 /\ 2 ^ (k + 1) = 2 * 2 ^ k
<1> DEFINE S == 1 .. k
           A == SUBSET S
           T == 1 .. k + 1
           B == {a \cup {k + 1} : a \in A}
           f == [a \in A |-> a \cup {k + 1}]
<1>1. /\ IsFiniteSet(S) /\ Cardinality(S) = k /\ IsFiniteSet(T) /\ Cardinality(T) = k + 1
      /\ T = S \cup {k + 1} /\ k + 1 \notin S
  <2>1. IsFiniteSet(S) /\ Cardinality(S) = k
    <3>1. IsFiniteSet(S) /\ Cardinality(S) = IF 1 > k THEN 0 ELSE k - 1 + 1
      BY FS_Interval
    <3> HIDE DEF S
    <3>2. QED
      BY <3>1
  <2>2. T = S \cup {k + 1} /\ k + 1 \notin S
    OBVIOUS
  <2> HIDE DEF S, T
  <2>3. QED
    BY <2>1, <2>2, FS_AddElement
<1> HIDE DEF S, T
<1>2. IsFiniteSet(A) /\ Cardinality(A) = 2 ^ k
  BY <1>1, FS_SUBSET
<1>3. IsFiniteSet(SUBSET T) /\ Cardinality(SUBSET T) = 2 ^ (k + 1)
  BY <1>1, FS_SUBSET
<1>4. SUBSET T = A \cup B
  <2>1. ASSUME NEW t \in SUBSET T
        PROVE  t \in A \cup B
    <3>1. CASE k + 1 \in t
      <4>1. t \ {k + 1} \in A /\ t = (t \ {k + 1}) \cup {k + 1}
        BY <1>1, <3>1
      <4>2. QED
        BY <4>1
    <3>2. CASE k + 1 \notin t
      BY <1>1, <3>2
    <3>3. QED
      BY <3>1, <3>2
  <2>2. ASSUME NEW t \in A \cup B
        PROVE  t \in SUBSET T
    BY <1>1
  <2> HIDE DEF A, B
  <2>3. QED
    BY <2>1, <2>2
<1>5. A \cap B = {}
  BY <1>1
<1>6. f \in Bijection(A, B)
  <2>1. f \in [A -> B] /\ \A b \in B : \E a \in A : f[a] = b
    OBVIOUS
  <2>2. \A a, b \in A : f[a] = f[b] => a = b
    BY <1>1
  <2> HIDE DEF f, A, B
  <2>3. QED
    BY <2>1, <2>2, Zenon DEF Bijection, Injection, Surjection, IsInjective
<1>7. IsFiniteSet(B) /\ Cardinality(B) = 2 ^ k
  BY <1>2, <1>6, FS_Bijection DEF ExistsBijection
<1>8. Cardinality(A \cup B) = Cardinality(A) + Cardinality(B)
  <2> HIDE DEF A, B
  <2>1. Cardinality(A \cup B) = Cardinality(A) + Cardinality(B) - Cardinality(A \cap B)
    BY <1>2, <1>7, FS_Union
  <2>2. Cardinality(A \cap B) = 0 /\ Cardinality(A) \in Nat /\ Cardinality(B) \in Nat
    BY <1>2, <1>5, <1>7, FS_EmptySet, FS_CardinalityType
  <2>3. QED
    BY <2>1, <2>2
<1>9. 2 ^ k \in Nat /\ 2 ^ k # 0
  <2>1. {} \in A
    OBVIOUS
  <2>2. QED
    BY <1>2, <2>1, FS_EmptySet, FS_CardinalityType
<1>10. 2 ^ (k + 1) = 2 ^ k + 2 ^ k
  <2> HIDE DEF A, B
  <2>1. QED
    BY <1>2, <1>3, <1>4, <1>7, <1>8
<1>11. QED
  BY <1>9, <1>10

LEMMA Division ==
  ASSUME NEW m \in Nat \ {0}, NEW h \in Nat
  PROVE  h \div m \in Int /\ h % m \in 0 .. m - 1 /\ h = m * (h \div m) + (h % m)
OBVIOUS

LEMMA Remainder ==
  ASSUME NEW n0 \in Nat \ {0}, NEW c \in Int, NEW r \in 0 .. n0 - 1, NEW h \in Nat, h = n0 * c + r
  PROVE  h % n0 = r
<1> DEFINE d == h \div n0
           s == h % n0
<1>1. d \in Int /\ s \in 0 .. n0 - 1 /\ h = n0 * d + s
  OBVIOUS
<1> HIDE DEF d, s
<1>2. n0 * (d - c) = r - s
  <2>1. n0 * (d - c) = n0 * d - n0 * c
    BY <1>1
  <2>2. QED
    BY <1>1, <2>1
<1>3. ~(d - c >= 1)
  <2> SUFFICES ASSUME d - c >= 1
               PROVE  FALSE
    OBVIOUS
  <2>1. n0 * (d - c) >= n0
    BY <1>1
  <2>2. QED
    BY <1>1, <1>2, <2>1
<1>4. ~(d - c <= -1)
  <2> SUFFICES ASSUME d - c <= -1
               PROVE  FALSE
    OBVIOUS
  <2>1. n0 * (d - c) <= - n0
    BY <1>1
  <2>2. QED
    BY <1>1, <1>2, <2>1
<1>5. d = c
  BY <1>1, <1>3, <1>4
<1>6. s = r
  BY <1>1, <1>2, <1>5
<1>7. QED
  BY <1>6 DEF s

LEMMA TwiceTheBuckets ==
  ASSUME NEW n0 \in Nat \ {0}, NEW h \in Nat
  PROVE  h % (2 * n0) \in 0 .. 2 * n0 - 1 /\ (h % (2 * n0)) % n0 = h % n0
<1> DEFINE m == 2 * n0
           q == h \div m
           r == h % m
<1>1. m \in Nat \ {0} /\ m = 2 * n0
  OBVIOUS
<1>2. q \in Int /\ r \in 0 .. m - 1 /\ h = m * q + r /\ r \in Nat
  <2>1. m \in Nat \ {0}
    OBVIOUS
  <2> HIDE DEF m
  <2>2. q \in Int /\ r \in 0 .. m - 1 /\ h = m * q + r
    BY <2>1, Division
  <2>3. QED
    BY <2>1, <2>2
<1> DEFINE a == r \div n0
           b == r % n0
<1> HIDE DEF m, q, r
<1>3. a \in Int /\ b \in 0 .. n0 - 1 /\ r = n0 * a + b
  BY <1>2
<1> HIDE DEF a, b
<1>4. h = n0 * (2 * q + a) + b
  <2>1. n0 * (2 * q + a) = 2 * n0 * q + n0 * a
    BY <1>2, <1>3
  <2>2. m * q = 2 * n0 * q
    BY <1>1, <1>2
  <2>3. QED
    BY <1>2, <1>3, <2>1, <2>2
<1>5. h % n0 = b
  <2> DEFINE c == 2 * q + a
  <2>1. c \in Int /\ h = n0 * c + b
    BY <1>2, <1>3, <1>4
  <2> HIDE DEF c
  <2>2. QED
    BY <1>3, <2>1, Remainder
<1>6. QED
  BY <1>1, <1>2, <1>5 DEF b, r, m

(***************************************************************************)
(* The first and the i-th of a set of places.                              *)
(***************************************************************************)
LEMMA Least ==
  ASSUME NEW S, S \subseteq Nat, S # {}
  PROVE  \E p \in S : \A q \in S : p <= q
<1> DEFINE R == {ss \in Nat \X Nat : ss[1] < ss[2]}
<1>1. IsWellFoundedOn(R, Nat)
  BY NatLessThanWellFounded DEF OpToRel
<1>2. PICK p \in S : \A q \in S : ~(<<q, p>> \in R)
  <2> HIDE DEF R
  <2>1. QED
    BY <1>1, WFMin
<1>3. \A q \in S : p \in Nat /\ q \in Nat /\ ~(q < p)
  BY <1>2
<1>4. \A q \in S : p <= q
  BY <1>3
<1>5. QED
  BY <1>4

\* The places of a finite set, counted from the last one, get every number once.
LEMMA Ranks ==
  ASSUME NEW m \in Nat, NEW K, K \subseteq 1 .. m
  PROVE  LET rank(p) == Cardinality({q \in K : q >= p})
         IN  /\ Cardinality(K) \in Nat
             /\ \A p \in K : rank(p) \in 1 .. Cardinality(K)
             /\ \A i \in 1 .. Cardinality(K) : \E p \in K : rank(p) = i
             /\ \A p, q \in K : rank(p) = rank(q) => p = q
<1> DEFINE From(p) == {q \in K : q >= p}
           f == [p \in K |-> Cardinality(From(p))]
           c == Cardinality(K)
<1>1. IsFiniteSet(K) /\ c \in Nat
  <2>1. IsFiniteSet(1 .. m) /\ K \in SUBSET (1 .. m)
    BY FS_Interval
  <2>2. IsFiniteSet(K)
    BY <2>1, FS_Subset
  <2>3. QED
    BY <2>2, FS_CardinalityType
<1>2. ASSUME NEW p \in K
      PROVE  IsFiniteSet(From(p)) /\ Cardinality(From(p)) \in 1 .. c
  <2>1. From(p) \in SUBSET K /\ From(p) # {}
    OBVIOUS
  <2> HIDE DEF From
  <2>2. IsFiniteSet(From(p)) /\ Cardinality(From(p)) <= c
    BY <1>1, <2>1, FS_Subset
  <2>3. Cardinality(From(p)) \in Nat /\ Cardinality(From(p)) # 0
    BY <2>1, <2>2, FS_CardinalityType, FS_EmptySet
  <2>4. QED
    BY <1>1, <2>2, <2>3
<1>3. ASSUME NEW p \in K, NEW q \in K, p < q
      PROVE  Cardinality(From(p)) # Cardinality(From(q))
  <2>1. From(q) \in SUBSET From(p) /\ p \in From(p) /\ p \notin From(q)
    <3>1. \A x \in K : x \in Int
      OBVIOUS
    <3>2. \A x \in K : x >= q => x >= p
      BY <1>3, <3>1
    <3>3. ~(p >= q) /\ p >= p
      BY <1>3, <3>1
    <3>4. QED
      BY <3>2, <3>3
  <2> HIDE DEF From
  <2>2. QED
    BY <1>2, <2>1, FS_Subset
<1>4. \A p, q \in K : Cardinality(From(p)) = Cardinality(From(q)) => p = q
  <2>1. \A p, q \in K : p < q \/ q < p \/ p = q
    OBVIOUS
  <2> HIDE DEF From
  <2>2. QED
    BY <1>3, <2>1
<1>5. f \in Injection(K, 1 .. c)
  <2> HIDE DEF From, c
  <2>1. f \in [K -> 1 .. c]
    BY <1>2
  <2>2. \A p, q \in K : f[p] = f[q] => p = q
    BY <1>4
  <2> HIDE DEF f
  <2>3. QED
    BY <2>1, <2>2, Zenon DEF Injection, IsInjective
<1>6. f \in Surjection(K, 1 .. c)
  <2>1. IsFiniteSet(1 .. c) /\ Cardinality(1 .. c) = c
    <3> HIDE DEF c
    <3>1. IsFiniteSet(1 .. c) /\ Cardinality(1 .. c) = IF 1 > c THEN 0 ELSE c - 1 + 1
      BY <1>1, FS_Interval
    <3>2. QED
      BY <1>1, <3>1
  <2> HIDE DEF f
  <2>2. QED
    BY <1>1, <1>5, <2>1, FS_Injection
<1>7. \A i \in 1 .. c : \E p \in K : Cardinality(From(p)) = i
  <2> HIDE DEF From, c
  <2>1. \A i \in 1 .. c : \E p \in K : f[p] = i
    <3> HIDE DEF f
    <3>1. QED
      BY <1>6 DEF Surjection
  <2>2. QED
    BY <2>1
<1>8. QED
  BY <1>1, <1>2, <1>4, <1>7

\* Backwards keeps what is at the places, and nothing else.
LEMMA Kept ==
  ASSUME NEW T, NEW s \in Seq(T), NEW K, K \subseteq DOMAIN s
  PROVE  /\ Backwards(s, K) \in Seq(T)
         /\ \A i \in DOMAIN Backwards(s, K) : \E p \in K : Backwards(s, K)[i] = s[p]
         /\ \A p \in K : \E i \in DOMAIN Backwards(s, K) : Backwards(s, K)[i] = s[p]
<1> DEFINE c == Cardinality(K)
           rank(p) == Cardinality({q \in K : q >= p})
           at(i) == CHOOSE p \in K : rank(p) = i
           B == [i \in 1 .. c |-> s[at(i)]]
<1>1. Len(s) \in Nat /\ K \subseteq 1 .. Len(s)
  OBVIOUS
<1>2. /\ c \in Nat
      /\ \A p \in K : rank(p) \in 1 .. c
      /\ \A i \in 1 .. c : \E p \in K : rank(p) = i
      /\ \A p, q \in K : rank(p) = rank(q) => p = q
  BY <1>1, Ranks
<1>3. B = Backwards(s, K)
  BY DEF Backwards
<1> HIDE DEF c, rank
<1>4. \A i \in 1 .. c : at(i) \in K /\ rank(at(i)) = i
  BY <1>2
<1>5. \A p \in K : at(rank(p)) = p
  BY <1>2, <1>4
<1> HIDE DEF at
<1>6. DOMAIN B = 1 .. c /\ \A i \in 1 .. c : B[i] = s[at(i)]
  OBVIOUS
<1>7. \A i \in 1 .. c : s[at(i)] \in T
  BY <1>1, <1>4
<1>8. B \in Seq(T)
  BY <1>2, <1>7
<1> HIDE DEF B
<1>9. \A i \in DOMAIN B : \E p \in K : B[i] = s[p]
  BY <1>4, <1>6
<1>10. \A p \in K : \E i \in DOMAIN B : B[i] = s[p]
  BY <1>2, <1>5, <1>6
<1>11. QED
  BY <1>3, <1>8, <1>9, <1>10

(***************************************************************************)
(* Tables t of m buckets, and the nodes they hold.                         *)
(***************************************************************************)
Holds(t, x)      == \E i \in DOMAIN t : \E p \in DOMAIN t[i] : t[i][p] = x
WellPlaced(t, m) == \A i \in 0 .. m - 1 : \A p \in DOMAIN t[i] :
                      t[i][p].hash % m = i /\ MadeFor(t[i][p])
OneEach(t) == \A x, y \in HashNodes : Holds(t, x) /\ Holds(t, y) /\ x.of = y.of => x = y

GoodTable(t, m) ==
  /\ m \in Nat \ {0} /\ t \in [0 .. m - 1 -> Seq(HashNodes)]
  /\ WellPlaced(t, m) /\ OneEach(t)

LEMMA Constants ==
  /\ LongKeys \subseteq Keys /\ \A key \in Keys : Hash[key] \in Nat
  /\ N \in Nat /\ MaxBits \in Nat /\ N <= MaxBits /\ MaxInserts \in Nat
  /\ Absent \notin Symbols /\ Absent \notin Keys
BY HashTableAssumption DEF HashTableAssumption

LEMMA Held ==
  ASSUME NEW t, NEW m, GoodTable(t, m), NEW x, Holds(t, x)
  PROVE  /\ x \in HashNodes /\ x.of \in Keys /\ MadeFor(x) /\ x.hash \in Nat
         /\ x.hash % m \in 0 .. m - 1
         /\ \E p \in DOMAIN t[x.hash % m] : t[x.hash % m][p] = x
<1>1. m \in Nat \ {0} /\ t \in [0 .. m - 1 -> Seq(HashNodes)] /\ WellPlaced(t, m)
  BY DEF GoodTable
<1>2. PICK i \in 0 .. m - 1 : \E p \in DOMAIN t[i] : t[i][p] = x
  BY <1>1 DEF Holds
<1>3. PICK p \in DOMAIN t[i] : t[i][p] = x
  BY <1>2
<1>4. t[i] \in Seq(HashNodes)
  BY <1>1, <1>2
<1>5. x \in HashNodes
  BY <1>3, <1>4
<1>6. x.hash % m = i /\ MadeFor(x)
  BY <1>1, <1>3 DEF WellPlaced
<1>7. x.of \in Keys /\ x.hash \in Nat
  BY <1>5, Constants DEF HashNodes
<1>8. QED
  BY <1>3, <1>5, <1>6, <1>7

LEMMA NewNodeGood ==
  ASSUME NEW key \in Keys, NEW sym \in Symbols
  PROVE  /\ NewNode(key, sym) \in HashNodes /\ MadeFor(NewNode(key, sym))
         /\ NewNode(key, sym).hash = Hash[key] /\ NewNode(key, sym).of = key
         /\ NewNode(key, sym).symbol = sym
BY DEF NewNode, HashNodes, MadeFor

LEMMA PushGood ==
  ASSUME NEW t, NEW m, GoodTable(t, m), NEW key \in Keys, NEW sym \in Symbols,
         \A x \in HashNodes : Holds(t, x) => x.of # key
  PROVE  LET node == NewNode(key, sym)
             u == PushedOn(t, Hash[key] % m, node)
         IN  /\ GoodTable(u, m)
             /\ \A x : Holds(u, x) <=> Holds(t, x) \/ x = node
<1> DEFINE node == NewNode(key, sym)
           k == Hash[key] % m
           u == PushedOn(t, k, node)
<1>1. m \in Nat \ {0} /\ t \in [0 .. m - 1 -> Seq(HashNodes)] /\ WellPlaced(t, m) /\ OneEach(t)
  BY DEF GoodTable
<1>2. k \in 0 .. m - 1
  BY <1>1, Constants
<1>3. node \in HashNodes /\ MadeFor(node) /\ node.hash % m = k /\ node.of = key
  BY NewNodeGood
<1> HIDE DEF node, k
<1>4. /\ DOMAIN u = 0 .. m - 1 /\ u[k] = <<node>> \o t[k]
      /\ \A i \in 0 .. m - 1 : i # k => u[i] = t[i]
      /\ u = [i \in 0 .. m - 1 |-> u[i]]
  BY <1>1, <1>2 DEF PushedOn
<1> HIDE DEF u
<1>5. t[k] \in Seq(HashNodes)
  BY <1>1, <1>2
<1>6. /\ u[k] \in Seq(HashNodes) /\ 1 \in DOMAIN u[k] /\ u[k][1] = node
      /\ \A p \in DOMAIN u[k] : p = 1 \/ (p - 1 \in DOMAIN t[k] /\ u[k][p] = t[k][p - 1])
      /\ \A p \in DOMAIN t[k] : p + 1 \in DOMAIN u[k] /\ u[k][p + 1] = t[k][p]
  BY <1>3, <1>4, <1>5
<1>7. u \in [0 .. m - 1 -> Seq(HashNodes)]
  BY <1>1, <1>4, <1>6
<1>8. ASSUME NEW i \in 0 .. m - 1, NEW p \in DOMAIN u[i]
      PROVE  u[i][p].hash % m = i /\ MadeFor(u[i][p]) /\ (Holds(t, u[i][p]) \/ u[i][p] = node)
  <2>1. CASE i = k /\ p = 1
    BY <1>3, <1>6, <2>1
  <2>2. CASE i = k /\ p # 1
    <3>1. p - 1 \in DOMAIN t[k] /\ u[i][p] = t[k][p - 1] /\ k \in DOMAIN t
      BY <1>1, <1>2, <1>6, <2>2
    <3>2. t[k][p - 1].hash % m = k /\ MadeFor(t[k][p - 1])
      BY <1>1, <1>2, <3>1 DEF WellPlaced
    <3>3. QED
      BY <2>2, <3>1, <3>2 DEF Holds
  <2>3. CASE i # k
    BY <1>1, <1>4, <2>3 DEF WellPlaced, Holds
  <2>4. QED
    BY <2>1, <2>2, <2>3
<1>9. ASSUME NEW x, Holds(t, x)
      PROVE  Holds(u, x)
  <2>1. PICK i \in 0 .. m - 1 : \E p \in DOMAIN t[i] : t[i][p] = x
    BY <1>1, <1>9 DEF Holds
  <2>2. PICK p \in DOMAIN t[i] : t[i][p] = x
    BY <2>1
  <2>3. CASE i = k
    BY <1>2, <1>4, <1>6, <2>2, <2>3 DEF Holds
  <2>4. CASE i # k
    BY <1>4, <2>2, <2>4 DEF Holds
  <2>5. QED
    BY <2>3, <2>4
<1>10. Holds(u, node)
  BY <1>2, <1>4, <1>6 DEF Holds
<1>11. \A x : Holds(u, x) <=> Holds(t, x) \/ x = node
  <2>1. \A x : Holds(u, x) => Holds(t, x) \/ x = node
    BY <1>4, <1>8 DEF Holds
  <2>2. QED
    BY <1>9, <1>10, <2>1
<1>12. OneEach(u)
  BY <1>1, <1>3, <1>11 DEF OneEach
<1>13. WellPlaced(u, m)
  BY <1>8 DEF WellPlaced
<1>14. QED
  BY <1>1, <1>7, <1>11, <1>12, <1>13 DEF GoodTable, node, u, k

\* A doubling keeps every node, each in the bucket of its hash.
LEMMA RehashGood ==
  ASSUME GoodTable(table, n)
  PROVE  /\ GoodTable(Rehashed, 2 * n)
         /\ \A x : Holds(Rehashed, x) <=> Holds(table, x)
<1> DEFINE m == 2 * n
           at(j) == {p \in DOMAIN table[j % n] : table[j % n][p].hash % m = j}
           u == Rehashed
<1>1. /\ n \in Nat \ {0} /\ table \in [0 .. n - 1 -> Seq(HashNodes)]
      /\ WellPlaced(table, n) /\ OneEach(table)
  BY DEF GoodTable
<1>2. m \in Nat \ {0} /\ \A j \in 0 .. m - 1 : j % n \in 0 .. n - 1
  BY <1>1
<1>3. DOMAIN u = 0 .. m - 1 /\ \A j \in 0 .. m - 1 : u[j] = Backwards(table[j % n], at(j))
  BY DEF Rehashed
<1>11. u = [j \in 0 .. m - 1 |-> u[j]]
  BY DEF Rehashed
<1> HIDE DEF u, m
<1>4. ASSUME NEW j \in 0 .. m - 1
      PROVE  /\ u[j] \in Seq(HashNodes) /\ table[j % n] \in Seq(HashNodes)
             /\ \A i \in DOMAIN u[j] : \E p \in at(j) : u[j][i] = table[j % n][p]
             /\ \A p \in at(j) : \E i \in DOMAIN u[j] : u[j][i] = table[j % n][p]
  <2>1. table[j % n] \in Seq(HashNodes) /\ at(j) \subseteq DOMAIN table[j % n]
    BY <1>1, <1>2
  <2> HIDE DEF at
  <2>2. u[j] = Backwards(table[j % n], at(j))
    BY <1>3
  <2>3. QED
    BY <2>1, <2>2, Kept
<1>5. u \in [0 .. m - 1 -> Seq(HashNodes)]
  <2>1. \A j \in 0 .. m - 1 : u[j] \in Seq(HashNodes)
    BY <1>4
  <2>2. QED
    BY <1>11, <2>1
<1>6. ASSUME NEW j \in 0 .. m - 1, NEW i \in DOMAIN u[j]
      PROVE  u[j][i].hash % m = j /\ MadeFor(u[j][i]) /\ Holds(table, u[j][i])
  <2>1. PICK p \in DOMAIN table[j % n] : u[j][i] = table[j % n][p] /\ table[j % n][p].hash % m = j
    BY <1>4
  <2>2. j % n \in 0 .. n - 1 /\ j % n \in DOMAIN table
    BY <1>1, <1>2
  <2>3. MadeFor(table[j % n][p]) /\ Holds(table, table[j % n][p])
    BY <1>1, <2>1, <2>2 DEF WellPlaced, Holds
  <2>4. QED
    BY <2>1, <2>3
<1>7. ASSUME NEW x, Holds(table, x)
      PROVE  Holds(u, x)
  <2> DEFINE j == x.hash % m
  <2>1. /\ x.hash \in Nat /\ \E p \in DOMAIN table[x.hash % n] : table[x.hash % n][p] = x
    BY <1>7, Held
  <2>2. j \in 0 .. m - 1 /\ j % n = x.hash % n
    BY <1>1, <2>1, TwiceTheBuckets DEF m
  <2>3. PICK p \in DOMAIN table[j % n] : table[j % n][p] = x
    BY <2>1, <2>2
  <2>4. p \in at(j)
    BY <2>3
  <2> HIDE DEF j, at
  <2>5. \E i \in DOMAIN u[j] : u[j][i] = x
    BY <1>4, <2>2, <2>3, <2>4
  <2>6. QED
    BY <1>3, <2>2, <2>5 DEF Holds
<1>8. \A x : Holds(u, x) <=> Holds(table, x)
  <2>1. \A x : Holds(u, x) => Holds(table, x)
    BY <1>3, <1>6 DEF Holds
  <2>2. QED
    BY <1>7, <2>1
<1>9. WellPlaced(u, m) /\ OneEach(u)
  BY <1>1, <1>6, <1>8 DEF WellPlaced, OneEach
<1>10. QED
  BY <1>2, <1>5, <1>8, <1>9 DEF GoodTable, u, m

(***************************************************************************)
(* The search meets the node of its key.                                   *)
(***************************************************************************)
LEMMA Search ==
  ASSUME GoodTable(table, n), NEW key \in Keys
  PROVE  /\ Halts(key) = {} => \A x \in HashNodes : Holds(table, x) => x.of # key
         /\ Found(key) => /\ First(key) \in HashNodes /\ Holds(table, First(key))
                          /\ First(key).of = key /\ key \notin LongKeys
<1> DEFINE b == Hash[key] % n
<1>1. /\ n \in Nat \ {0} /\ table \in [0 .. n - 1 -> Seq(HashNodes)]
      /\ b \in 0 .. n - 1 /\ Bucket(key) = table[b] /\ table[b] \in Seq(HashNodes)
  BY Constants DEF GoodTable, Bucket
<1>2. ASSUME NEW x \in HashNodes, Holds(table, x), x.of = key
      PROVE  Halts(key) # {}
  <2>1. MadeFor(x) /\ \E p \in DOMAIN table[x.hash % n] : table[x.hash % n][p] = x
    BY <1>2, Held
  <2>2. x.hash = Hash[key] /\ x.key \in {key, Absent}
    BY <1>2, <2>1 DEF MadeFor
  <2>3. PICK p \in DOMAIN Bucket(key) : Bucket(key)[p] = x
    BY <1>1, <2>1, <2>2
  <2>4. p \in Halts(key)
    BY <2>2, <2>3 DEF Halts
  <2>5. QED
    BY <2>4
<1>3. ASSUME Found(key)
      PROVE  /\ First(key) \in HashNodes /\ Holds(table, First(key))
             /\ First(key).of = key /\ key \notin LongKeys
  <2>1. Halts(key) # {} /\ First(key).key # Absent
    BY <1>3 DEF Found
  <2>2. Halts(key) \subseteq Nat
    BY <1>1 DEF Halts
  <2>3. \E p \in Halts(key) : \A q \in Halts(key) : p <= q
    BY <2>1, <2>2, Least
  <2>4. PICK p \in Halts(key) : First(key) = Bucket(key)[p]
    BY <2>3 DEF First
  <2>5. p \in DOMAIN Bucket(key) /\ Bucket(key)[p].key = key
    BY <2>1, <2>4 DEF Halts
  <2>6. First(key) \in HashNodes /\ Holds(table, First(key))
    BY <1>1, <2>4, <2>5 DEF Holds
  <2>7. MadeFor(First(key))
    BY <2>6, Held
  <2>8. QED
    BY <2>1, <2>4, <2>5, <2>6, <2>7, Constants DEF MadeFor
<1>4. QED
  BY <1>2, <1>3

RetaggedIn(t, i, key, sym) == [t EXCEPT ![i] = Retagged(@, key, sym)]

LEMMA RetagGood ==
  ASSUME GoodTable(table, n), NEW key \in Keys, NEW sym \in Symbols, Found(key)
  PROVE  LET u == RetaggedIn(table, Hash[key] % n, key, sym)
         IN  /\ GoodTable(u, n)
             /\ \A x : Holds(u, x) => \/ x.of # key /\ Holds(table, x)
                                      \/ x.of = key /\ x.symbol = sym
             /\ \A x : Holds(table, x) /\ x.of # key => Holds(u, x)
             /\ \E x : Holds(u, x) /\ x.of = key
<1> DEFINE b == Hash[key] % n
           s == table[b]
           r == Retagged(s, key, sym)
           u == RetaggedIn(table, b, key, sym)
<1>1. /\ n \in Nat \ {0} /\ table \in [0 .. n - 1 -> Seq(HashNodes)]
      /\ WellPlaced(table, n) /\ OneEach(table)
  BY DEF GoodTable
<1>2. b \in 0 .. n - 1 /\ s \in Seq(HashNodes)
  BY <1>1, Constants
<1>3. /\ DOMAIN u = 0 .. n - 1 /\ u[b] = r
      /\ \A i \in 0 .. n - 1 : i # b => u[i] = table[i]
      /\ u = [i \in 0 .. n - 1 |-> u[i]]
  BY <1>1, <1>2 DEF RetaggedIn
<1> HIDE DEF u
<1>4. First(key) \in HashNodes /\ Holds(table, First(key)) /\ First(key).of = key /\ key \notin LongKeys
  BY Search
<1>5. DOMAIN r = DOMAIN s /\ r = [p \in DOMAIN s |-> r[p]]
  BY DEF Retagged
<1>6. ASSUME NEW i \in 0 .. n - 1, NEW p \in DOMAIN table[i]
      PROVE  /\ table[i][p] \in HashNodes /\ table[i][p].hash % n = i /\ MadeFor(table[i][p])
             /\ Holds(table, table[i][p])
             /\ table[i][p].key = key <=> table[i][p].of = key
  <2>1. table[i][p] \in HashNodes /\ table[i][p].hash % n = i /\ MadeFor(table[i][p])
        /\ Holds(table, table[i][p])
    BY <1>1 DEF WellPlaced, Holds
  <2>2. QED
    BY <1>4, <2>1, Constants DEF MadeFor
<1>7. ASSUME NEW p \in DOMAIN s
      PROVE  /\ r[p] \in HashNodes /\ r[p].hash = s[p].hash /\ MadeFor(r[p]) /\ r[p].of = s[p].of
             /\ s[p].of # key => r[p] = s[p]
             /\ s[p].of = key => r[p].symbol = sym
  <2>1. s[p] \in HashNodes /\ MadeFor(s[p]) /\ (s[p].key = key <=> s[p].of = key)
    BY <1>2, <1>6
  <2>2. r[p] = IF s[p].key = key THEN [s[p] EXCEPT !.symbol = sym] ELSE s[p]
    BY DEF Retagged
  <2> DEFINE x == s[p]
             y == r[p]
  <2> HIDE DEF x, y, r, s
  <2>3. x \in HashNodes /\ MadeFor(x) /\ (x.key = key <=> x.of = key)
        /\ y = IF x.key = key THEN [x EXCEPT !.symbol = sym] ELSE x
    BY <2>1, <2>2 DEF x, y
  <2>4. /\ y \in HashNodes /\ y.hash = x.hash /\ y.of = x.of /\ y.key = x.key
        /\ (x.of # key => y = x) /\ (x.of = key => y.symbol = sym)
    BY <2>3 DEF HashNodes
  <2>5. QED
    BY <2>3, <2>4 DEF MadeFor, x, y
<1> HIDE DEF r, s, b
<1>8. u \in [0 .. n - 1 -> Seq(HashNodes)]
  <2>1. r \in Seq(HashNodes)
    BY <1>2, <1>5, <1>7
  <2>2. \A i \in 0 .. n - 1 : u[i] \in Seq(HashNodes)
    BY <1>1, <1>3, <2>1
  <2>3. QED
    BY <1>3, <2>2
<1>9. ASSUME NEW i \in 0 .. n - 1, NEW p \in DOMAIN u[i]
      PROVE  /\ p \in DOMAIN table[i] /\ u[i][p].hash % n = i /\ MadeFor(u[i][p])
             /\ u[i][p] \in HashNodes /\ u[i][p].of = table[i][p].of
             /\ table[i][p].of # key => u[i][p] = table[i][p]
             /\ table[i][p].of = key => u[i][p].symbol = sym
  <2>1. CASE i = b
    BY <1>3, <1>5, <1>6, <1>7, <2>1 DEF s
  <2>2. CASE i # b
    <3>1. u[i] = table[i] /\ p \in DOMAIN table[i]
      BY <1>3, <2>2
    <3>2. table[i][p].of # key
      <4>1. table[i][p].of = key => table[i][p].hash = Hash[key]
        BY <1>6, <3>1 DEF MadeFor
      <4>2. table[i][p].hash % n = i
        BY <1>6, <3>1
      <4>3. QED
        BY <2>2, <4>1, <4>2 DEF b
    <3>3. QED
      BY <1>6, <3>1, <3>2
  <2>3. QED
    BY <2>1, <2>2
<1>10. ASSUME NEW x, Holds(u, x)
       PROVE  /\ x \in HashNodes
              /\ \/ x.of # key /\ Holds(table, x)
                 \/ x.of = key /\ x.symbol = sym
  <2>1. PICK i \in 0 .. n - 1 : \E p \in DOMAIN u[i] : u[i][p] = x
    BY <1>3, <1>10 DEF Holds
  <2>2. PICK p \in DOMAIN u[i] : u[i][p] = x
    BY <2>1
  <2>3. QED
    BY <1>6, <1>9, <2>2
<1>11. ASSUME NEW x, Holds(table, x)
       PROVE  \E y : Holds(u, y) /\ y.of = x.of /\ (x.of # key => y = x)
  <2>1. PICK i \in 0 .. n - 1 : \E p \in DOMAIN table[i] : table[i][p] = x
    BY <1>1, <1>11 DEF Holds
  <2>2. PICK p \in DOMAIN table[i] : table[i][p] = x
    BY <2>1
  <2>3. p \in DOMAIN u[i]
    BY <1>3, <1>5, <2>2 DEF s
  <2>4. Holds(u, u[i][p])
    BY <1>3, <2>3 DEF Holds
  <2>5. QED
    BY <1>9, <2>2, <2>3, <2>4
<1>12. OneEach(u)
  <2> SUFFICES ASSUME NEW x \in HashNodes, NEW y \in HashNodes, Holds(u, x), Holds(u, y), x.of = y.of
               PROVE  x = y
    BY DEF OneEach
  <2>1. CASE x.of # key
    BY <1>1, <1>10, <2>1 DEF OneEach
  <2>2. CASE x.of = key
    <3>1. x.symbol = sym /\ y.symbol = sym
      BY <1>10, <2>2
    <3>2. MadeFor(x) /\ MadeFor(y)
      BY <1>3, <1>9 DEF Holds
    <3>3. QED
      BY <3>1, <3>2 DEF MadeFor, HashNodes
  <2>3. QED
    BY <2>1, <2>2
<1>13. WellPlaced(u, n)
  BY <1>9 DEF WellPlaced
<1>14. GoodTable(u, n)
  BY <1>1, <1>8, <1>12, <1>13 DEF GoodTable
<1>15. QED
  BY <1>4, <1>10, <1>11, <1>14 DEF u, b

LEMMA EmptyGood ==
  ASSUME NEW t, NEW m \in Nat \ {0}, t = [i \in 0 .. m - 1 |-> <<>>]
  PROVE  GoodTable(t, m) /\ \A x : ~Holds(t, x)
<1>1. t \in [0 .. m - 1 -> Seq(HashNodes)] /\ \A i \in 0 .. m - 1 : DOMAIN t[i] = {}
  OBVIOUS
<1>2. QED
  BY <1>1 DEF GoodTable, WellPlaced, OneEach, Holds

(***************************************************************************)
(* The map a table stands for.                                             *)
(***************************************************************************)
EntriesOf(t, m) == UNION {{[bucket |-> i, at |-> p] : p \in DOMAIN t[i]} : i \in 0 .. m - 1}
EntriesFor(t, m, key) == {e \in EntriesOf(t, m) : t[e.bucket][e.at].of = key}
ContentsOf(t, m) ==
  [key \in Keys |-> IF EntriesFor(t, m, key) = {} THEN Absent
                    ELSE LET e == CHOOSE e \in EntriesFor(t, m, key) : TRUE
                         IN  t[e.bucket][e.at].symbol]

LEMMA Symbol ==
  ASSUME NEW t, NEW m, GoodTable(t, m), NEW key \in Keys
  PROVE  /\ (\A x \in HashNodes : Holds(t, x) => x.of # key) => ContentsOf(t, m)[key] = Absent
         /\ \A x : Holds(t, x) /\ x.of = key =>
              ContentsOf(t, m)[key] = x.symbol /\ x.symbol \in Symbols
<1> DEFINE E == EntriesFor(t, m, key)
<1>1. m \in Nat \ {0} /\ t \in [0 .. m - 1 -> Seq(HashNodes)] /\ OneEach(t)
  BY DEF GoodTable
<1>2. \A e \in E : Holds(t, t[e.bucket][e.at]) /\ t[e.bucket][e.at].of = key
  <2> SUFFICES ASSUME NEW e \in E
               PROVE  Holds(t, t[e.bucket][e.at]) /\ t[e.bucket][e.at].of = key
    OBVIOUS
  <2>1. e \in EntriesOf(t, m) /\ t[e.bucket][e.at].of = key
    BY DEF EntriesFor
  <2>2. PICK i \in 0 .. m - 1 : \E p \in DOMAIN t[i] : e = [bucket |-> i, at |-> p]
    BY <2>1 DEF EntriesOf
  <2>3. QED
    BY <1>1, <2>1, <2>2 DEF Holds
<1>3. ASSUME NEW x, Holds(t, x), x.of = key
      PROVE  E # {}
  <2>1. PICK i \in 0 .. m - 1 : \E p \in DOMAIN t[i] : t[i][p] = x
    BY <1>1, <1>3 DEF Holds
  <2>2. PICK p \in DOMAIN t[i] : t[i][p] = x
    BY <2>1
  <2>3. [bucket |-> i, at |-> p] \in EntriesOf(t, m)
    BY <2>2 DEF EntriesOf
  <2>4. [bucket |-> i, at |-> p] \in E
    BY <1>3, <2>2, <2>3 DEF EntriesFor
  <2>5. QED
    BY <2>4
<1>4. ContentsOf(t, m)[key] = IF E = {} THEN Absent
                              ELSE LET e == CHOOSE e \in E : TRUE IN t[e.bucket][e.at].symbol
  BY DEF ContentsOf
<1> HIDE DEF E
<1>5. ASSUME NEW x, Holds(t, x), x.of = key
      PROVE  ContentsOf(t, m)[key] = x.symbol /\ x.symbol \in Symbols
  <2>1. PICK e \in E : ContentsOf(t, m)[key] = t[e.bucket][e.at].symbol
    BY <1>3, <1>4, <1>5
  <2> DEFINE y == t[e.bucket][e.at]
  <2>2. Holds(t, y) /\ y.of = key
    BY <1>2
  <2> HIDE DEF y
  <2>3. x \in HashNodes /\ y \in HashNodes
    BY <1>5, <2>2, Held
  <2>4. x = y
    BY <1>1, <1>5, <2>2, <2>3 DEF OneEach
  <2>5. QED
    BY <2>1, <2>3, <2>4 DEF HashNodes, y
<1>6. ASSUME \A x \in HashNodes : Holds(t, x) => x.of # key
      PROVE  E = {}
  BY <1>2, <1>6, Held
<1>7. QED
  BY <1>4, <1>5, <1>6

\* Tables that hold the same nodes for a key give it the same symbol.
LEMMA SameSymbol ==
  ASSUME NEW t, NEW m, GoodTable(t, m), NEW u, NEW k, GoodTable(u, k), NEW key \in Keys,
         \A x : x.of = key => (Holds(t, x) <=> Holds(u, x))
  PROVE  ContentsOf(u, k)[key] = ContentsOf(t, m)[key]
<1>1. CASE \E x : Holds(t, x) /\ x.of = key
  <2>1. PICK x : Holds(t, x) /\ x.of = key
    BY <1>1
  <2>2. Holds(u, x)
    BY <2>1
  <2>3. ContentsOf(t, m)[key] = x.symbol
    BY <2>1, Symbol
  <2>4. ContentsOf(u, k)[key] = x.symbol
    BY <2>1, <2>2, Symbol
  <2>5. QED
    BY <2>3, <2>4
<1>2. CASE \A x : ~(Holds(t, x) /\ x.of = key)
  <2>1. ContentsOf(t, m)[key] = Absent
    BY <1>2, Symbol
  <2>2. \A x : ~(Holds(u, x) /\ x.of = key)
    BY <1>2
  <2>3. ContentsOf(u, k)[key] = Absent
    BY <2>2, Symbol
  <2>4. QED
    BY <2>1, <2>3
<1>3. QED
  BY <1>1, <1>2

LEMMA ContentsAre == Contents = ContentsOf(table, n) /\ DOMAIN Contents = Keys
BY DEF Contents, EntryOf, Entries, Node, ContentsOf, EntriesFor, EntriesOf

LEMMA ContentsBecome == Contents' = ContentsOf(table', n') /\ DOMAIN Contents' = Keys
BY DEF Contents, EntryOf, Entries, Node, ContentsOf, EntriesFor, EntriesOf

(***************************************************************************)
(* The invariant, in terms of GoodTable.                                   *)
(***************************************************************************)
Sizes == /\ phase \in {"live", "faulted"}
         /\ n \in {2 ^ b : b \in N .. MaxBits}
         /\ inuse \in 0 .. MaxInserts /\ threshold \in 0 .. n

Sound == Sizes /\ GoodTable(table, n)

LEMMA SoundIsIInv == Sound => IInv
<1> SUFFICES ASSUME Sound
             PROVE  IInv
  OBVIOUS
<1>1. /\ n \in Nat \ {0} /\ table \in [0 .. n - 1 -> Seq(HashNodes)]
      /\ WellPlaced(table, n) /\ OneEach(table)
  BY DEF Sound, GoodTable
<1>2. ASSUME NEW e \in Entries
      PROVE  /\ Node(e) \in HashNodes /\ Holds(table, Node(e))
             /\ Node(e).hash % n = e.bucket /\ MadeFor(Node(e))
  <2>1. PICK i \in 0 .. n - 1 : \E p \in DOMAIN table[i] : e = [bucket |-> i, at |-> p]
    BY DEF Entries
  <2>2. PICK p \in DOMAIN table[i] : e = [bucket |-> i, at |-> p]
    BY <2>1
  <2>3. Node(e) = table[i][p] /\ e.bucket = i
    BY <2>2 DEF Node
  <2>4. table[i][p] \in HashNodes /\ Holds(table, table[i][p])
    BY <1>1, <2>2 DEF Holds
  <2>5. QED
    BY <1>1, <2>2, <2>3, <2>4 DEF WellPlaced
<1>3. NodesInTheirBuckets
  BY <1>1, <1>2 DEF NodesInTheirBuckets, TypeOK, Sound, Sizes
<1>4. \A e, f \in Entries : Node(e).of = Node(f).of => Node(e) = Node(f)
  BY <1>1, <1>2 DEF OneEach
<1>5. QED
  BY <1>1, <1>2, <1>3, <1>4 DEF IInv

LEMMA InitSound == Init => Sound /\ \A x : ~Holds(table, x)
<1> SUFFICES ASSUME Init
             PROVE  Sound /\ \A x : ~Holds(table, x)
  OBVIOUS
<1>1. N \in Nat /\ n = 2 ^ N /\ table = [i \in 0 .. n - 1 |-> <<>>]
  BY Constants DEF Init
<1>2. n \in Nat \ {0}
  <2>1. 2 ^ N \in Nat /\ 2 ^ N >= 1
    BY <1>1, TwoToThe
  <2>2. QED
    BY <1>1, <2>1
<1>3. GoodTable(table, n) /\ \A x : ~Holds(table, x)
  BY <1>1, <1>2, EmptyGood
<1>4. threshold \in 0 .. n
  <2>1. threshold = (3 * n) \div 4
    BY <1>1 DEF Init, Threshold
  <2>2. QED
    BY <1>2, <2>1
<1>5. Sizes
  <2>1. N \in N .. MaxBits /\ 0 \in 0 .. MaxInserts
    BY Constants
  <2>2. QED
    BY <1>1, <1>4, <2>1 DEF Init, Sizes
<1>6. QED
  BY <1>3, <1>5 DEF Sound

\* A table that may be doubled has fewer than 2 ^ MaxBits buckets.
LEMMA Doubled ==
  ASSUME n \in {2 ^ b : b \in N .. MaxBits}, 2 * n <= 2 ^ MaxBits
  PROVE  2 * n \in {2 ^ b : b \in N .. MaxBits}
<1>1. PICK b \in N .. MaxBits : n = 2 ^ b
  OBVIOUS
<1>2. b \in Nat /\ MaxBits \in Nat /\ N \in Nat
  BY Constants
<1>3. 2 ^ b \in Nat /\ 2 ^ b >= 1 /\ 2 ^ (b + 1) = 2 * 2 ^ b
  BY <1>2, TwoToThe
<1>4. b # MaxBits
  BY <1>1, <1>3
<1>5. b + 1 \in N .. MaxBits /\ 2 * n = 2 ^ (b + 1)
  BY <1>1, <1>2, <1>3, <1>4
<1>6. QED
  BY <1>5

(***************************************************************************)
(* The operations, and the nodes the table holds after each.               *)
(***************************************************************************)
LEMMA InsertStep ==
  ASSUME Sound, NEW key \in Keys, NEW sym \in Symbols, inuse < MaxInserts, Insert(key, sym)
  PROVE  /\ Sound'
         /\ \A x : Holds(table', x) <=> Holds(table, x) \/ x = NewNode(key, sym)
<1>1. /\ n \in Nat \ {0} /\ n \in {2 ^ b : b \in N .. MaxBits} /\ GoodTable(table, n)
      /\ inuse \in 0 .. MaxInserts /\ threshold \in 0 .. n
  BY DEF Sound, Sizes, GoodTable
<1>2. \A x \in HashNodes : Holds(table, x) => x.of # key
  BY <1>1, Search DEF Insert
<1>3. /\ GoodTable(table', n') /\ n' \in {2 ^ b : b \in N .. MaxBits} /\ threshold' \in 0 .. n'
      /\ \A x : Holds(table', x) <=> Holds(table, x) \/ x = NewNode(key, sym)
  <2>1. CASE /\ 2 * n <= 2 ^ MaxBits
             /\ n' = 2 * n /\ threshold' = 2 * threshold
             /\ table' = PushedOn(Rehashed, Hash[key] % (2 * n), NewNode(key, sym))
    <3> DEFINE m == 2 * n
               u == Rehashed
               w == PushedOn(u, Hash[key] % m, NewNode(key, sym))
    <3>1. GoodTable(u, m) /\ \A x : Holds(u, x) <=> Holds(table, x)
      BY <1>1, RehashGood
    <3>2. table' = w /\ n' = m
      BY <2>1
    <3> HIDE DEF m, u
    <3>3. \A x \in HashNodes : Holds(u, x) => x.of # key
      BY <1>2, <3>1
    <3>4. GoodTable(w, m) /\ \A x : Holds(w, x) <=> Holds(u, x) \/ x = NewNode(key, sym)
      BY <3>1, <3>3, PushGood
    <3> HIDE DEF w
    <3>5. GoodTable(table', n') /\ \A x : Holds(table', x) <=> Holds(u, x) \/ x = NewNode(key, sym)
      BY <3>2, <3>4
    <3>6. n' \in {2 ^ b : b \in N .. MaxBits}
      BY <1>1, <2>1, Doubled
    <3>7. threshold' \in 0 .. n'
      BY <1>1, <2>1
    <3>8. QED
      BY <3>1, <3>5, <3>6, <3>7
  <2>2. CASE /\ table' = PushedOn(table, Hash[key] % n, NewNode(key, sym))
             /\ UNCHANGED <<n, threshold>>
    <3> DEFINE w == PushedOn(table, Hash[key] % n, NewNode(key, sym))
    <3>1. GoodTable(w, n) /\ \A x : Holds(w, x) <=> Holds(table, x) \/ x = NewNode(key, sym)
      BY <1>1, <1>2, PushGood
    <3>2. table' = w
      BY <2>2
    <3> HIDE DEF w
    <3>3. QED
      BY <1>1, <2>2, <3>1, <3>2
  <2>3. QED
    BY <2>1, <2>2 DEF Insert
<1>4. phase' \in {"live", "faulted"} /\ inuse' \in 0 .. MaxInserts
  BY <1>1, Constants DEF Insert
<1>5. QED
  BY <1>3, <1>4 DEF Sound, Sizes

LEMMA RetagStep ==
  ASSUME Sound, NEW key \in Keys, NEW sym \in Symbols, Retag(key, sym)
  PROVE  /\ Sound'
         /\ \A x : Holds(table', x) => \/ x.of # key /\ Holds(table, x)
                                       \/ x.of = key /\ x.symbol = sym
         /\ \A x : Holds(table, x) /\ x.of # key => Holds(table', x)
         /\ \E x : Holds(table', x) /\ x.of = key
<1>1. GoodTable(table, n) /\ Sizes /\ Found(key) /\ UNCHANGED <<phase, n, inuse, threshold>>
  BY DEF Sound, Retag
<1> DEFINE u == RetaggedIn(table, Hash[key] % n, key, sym)
<1>2. table' = u
  BY DEF Retag, RetaggedIn
<1>6. /\ GoodTable(u, n)
      /\ \A x : Holds(u, x) => \/ x.of # key /\ Holds(table, x)
                               \/ x.of = key /\ x.symbol = sym
      /\ \A x : Holds(table, x) /\ x.of # key => Holds(u, x)
      /\ \E x : Holds(u, x) /\ x.of = key
  BY <1>1, RetagGood
<1> HIDE DEF u
<1>3. /\ GoodTable(table', n)
      /\ \A x : Holds(table', x) => \/ x.of # key /\ Holds(table, x)
                                    \/ x.of = key /\ x.symbol = sym
      /\ \A x : Holds(table, x) /\ x.of # key => Holds(table', x)
      /\ \E x : Holds(table', x) /\ x.of = key
  BY <1>2, <1>6
<1>4. Sizes'
  BY <1>1 DEF Sizes
<1>5. QED
  BY <1>1, <1>3, <1>4 DEF Sound

LEMMA ResetStep ==
  ASSUME Sound, Reset
  PROVE  Sound' /\ \A x : ~Holds(table', x)
<1>1. n \in Nat \ {0} /\ DOMAIN table = 0 .. n - 1
  BY DEF Sound, GoodTable
<1>2. table' = [i \in 0 .. n - 1 |-> <<>>] /\ n' = n
  BY <1>1 DEF Reset, Cleared
<1>3. GoodTable(table', n) /\ \A x : ~Holds(table', x)
  BY <1>1, <1>2, EmptyGood
<1>4. Sizes'
  BY DEF Sound, Sizes, Reset
<1>5. QED
  BY <1>2, <1>3, <1>4 DEF Sound

LEMMA StillSound ==
  ASSUME Sound, UNCHANGED <<n, inuse, threshold, table>>, phase' \in {"live", "faulted"}
  PROVE  Sound'
BY DEF Sound, Sizes, GoodTable, WellPlaced, OneEach, Holds

LEMMA NextSound == Sound /\ [Next]_vars => Sound'
<1> SUFFICES ASSUME Sound, [Next]_vars
             PROVE  Sound'
  OBVIOUS
<1>1. phase \in {"live", "faulted"}
  BY DEF Sound, Sizes
<1>2. ASSUME NEW key \in Keys, NEW sym \in Symbols, inuse < MaxInserts, Insert(key, sym)
      PROVE  Sound'
  BY <1>2, InsertStep
<1>3. ASSUME NEW key \in Keys, NEW sym \in Symbols, InsertExisting(key, sym)
      PROVE  Sound'
  BY <1>1, <1>3, StillSound DEF InsertExisting
<1>4. ASSUME NEW key \in Keys, NEW sym \in Symbols, Retag(key, sym)
      PROVE  Sound'
  BY <1>4, RetagStep
<1>5. ASSUME NEW key \in Keys, Lookup(key)
      PROVE  Sound'
  BY <1>1, <1>5, StillSound DEF Lookup
<1>6. ASSUME NEW key \in Keys, Fault(key)
      PROVE  Sound'
  BY <1>6, StillSound DEF Fault
<1>7. CASE Reset
  BY <1>7, ResetStep
<1>8. CASE UNCHANGED vars
  BY <1>1, <1>8, StillSound DEF vars
<1>9. QED
  BY <1>2, <1>3, <1>4, <1>5, <1>6, <1>7, <1>8 DEF Next

\* IInv holds in every state: each node is in the bucket its hash selects, whatever
\* was doubled before, and a key has one node (hash_table_insert () and _resize ()).
THEOREM Invariance == Spec => []IInv
<1>1. Init => Sound
  BY InitSound
<1>2. Sound /\ [Next]_vars => Sound'
  BY NextSound
<1>3. Sound => IInv
  BY SoundIsIInv
<1>4. QED
  BY <1>1, <1>2, <1>3, PTL DEF Spec

\* Every node is in the bucket its hash selects, so that the search for its key
\* meets it after any number of doublings.
THEOREM NodesFound == Spec => []NodesInTheirBuckets
<1>1. IInv => NodesInTheirBuckets
  BY DEF IInv
<1>2. QED
  BY <1>1, Invariance, PTL

(***************************************************************************)
(* Refinement of SymbolMap.                                                *)
(***************************************************************************)
LEMMA InsertIsInsert ==
  ASSUME Sound, NEW key \in Keys, NEW sym \in Symbols, inuse < MaxInserts, Insert(key, sym)
  PROVE  Map!Insert(key, sym)
<1>1. /\ Sound' /\ GoodTable(table, n) /\ GoodTable(table', n') /\ Halts(key) = {}
      /\ \A x : Holds(table', x) <=> Holds(table, x) \/ x = NewNode(key, sym)
  BY InsertStep DEF Sound, Insert
<1>2. Contents[key] = Absent
  BY <1>1, Search, Symbol, ContentsAre
<1>3. Contents'[key] = sym
  <2>1. Holds(table', NewNode(key, sym)) /\ NewNode(key, sym).of = key /\ NewNode(key, sym).symbol = sym
    BY <1>1, NewNodeGood
  <2>2. ContentsOf(table', n')[key] = sym
    BY <1>1, <2>1, Symbol
  <2>3. QED
    BY <2>2, ContentsBecome
<1>4. ASSUME NEW k \in Keys, k # key
      PROVE  Contents'[k] = Contents[k]
  <2>1. \A x : x.of = k => (Holds(table, x) <=> Holds(table', x))
    BY <1>1, <1>4, NewNodeGood
  <2>2. ContentsOf(table', n')[k] = ContentsOf(table, n)[k]
    BY <1>1, <2>1, SameSymbol
  <2>3. QED
    BY <2>2, ContentsAre, ContentsBecome
<1>5. Contents' = [Contents EXCEPT ![key] = sym]
  <2>1. Contents = [k \in Keys |-> Contents[k]] /\ Contents' = [k \in Keys |-> Contents'[k]]
    BY DEF Contents
  <2> QED
    BY <1>3, <1>4, <2>1
<1>6. QED
  BY <1>2, <1>3, <1>5 DEF Map!Insert, Map!Returns, Insert, Returns

LEMMA FoundIsThere ==
  ASSUME Sound, NEW key \in Keys
  PROVE  /\ Halts(key) = {} => Contents[key] = Absent
         /\ Found(key) => Contents[key] = First(key).symbol /\ Contents[key] # Absent
<1>1. GoodTable(table, n)
  BY DEF Sound
<1>2. Halts(key) = {} => Contents[key] = Absent
  BY <1>1, Search, Symbol, ContentsAre
<1>3. ASSUME Found(key)
      PROVE  Contents[key] = First(key).symbol /\ Contents[key] # Absent
  <2>1. Holds(table, First(key)) /\ First(key).of = key
    BY <1>1, <1>3, Search
  <2>2. ContentsOf(table, n)[key] = First(key).symbol /\ First(key).symbol \in Symbols
    BY <1>1, <2>1, Symbol
  <2>3. QED
    BY <2>2, ContentsAre, Constants
<1>4. QED
  BY <1>2, <1>3

LEMMA SameTable ==
  ASSUME UNCHANGED <<n, table>>
  PROVE  Contents' = Contents
BY DEF Contents, EntryOf, Entries, Node

LEMMA RetagIsRetag ==
  ASSUME Sound, NEW key \in Keys, NEW sym \in Symbols, Retag(key, sym)
  PROVE  Map!Retag(key, sym)
<1>1. /\ GoodTable(table, n) /\ GoodTable(table', n') /\ Found(key)
      /\ \A x : Holds(table', x) => \/ x.of # key /\ Holds(table, x)
                                    \/ x.of = key /\ x.symbol = sym
      /\ \A x : Holds(table, x) /\ x.of # key => Holds(table', x)
      /\ \E x : Holds(table', x) /\ x.of = key
  BY RetagStep DEF Sound, Retag
<1>2. Contents'[key] = sym
  <2>1. PICK x : Holds(table', x) /\ x.of = key
    BY <1>1
  <2>2. x.symbol = sym
    BY <1>1, <2>1
  <2>3. ContentsOf(table', n')[key] = x.symbol
    BY <1>1, <2>1, Symbol
  <2>4. QED
    BY <2>2, <2>3, ContentsBecome
<1>3. ASSUME NEW k \in Keys, k # key
      PROVE  Contents'[k] = Contents[k]
  <2>1. \A x : x.of = k => (Holds(table, x) <=> Holds(table', x))
    BY <1>1, <1>3
  <2>2. ContentsOf(table', n')[k] = ContentsOf(table, n)[k]
    BY <1>1, <2>1, SameSymbol
  <2>3. QED
    BY <2>2, ContentsAre, ContentsBecome
<1>4. Contents' = [Contents EXCEPT ![key] = sym]
  <2>1. Contents = [k \in Keys |-> Contents[k]] /\ Contents' = [k \in Keys |-> Contents'[k]]
    BY DEF Contents
  <2> QED
    BY <1>2, <1>3, <2>1
<1>5. Contents[key] # Absent
  BY <1>1, FoundIsThere
<1>6. QED
  BY <1>4, <1>5 DEF Map!Retag, Retag

LEMMA ResetIsReset ==
  ASSUME Sound, Reset
  PROVE  Map!Reset
<1>1. GoodTable(table', n') /\ \A x : ~Holds(table', x)
  BY ResetStep DEF Sound
<1>2. ASSUME NEW k \in Keys
      PROVE  Contents'[k] = Absent
  <2>1. ContentsOf(table', n')[k] = Absent
    BY <1>1, Symbol
  <2>2. QED
    BY <2>1, ContentsBecome
<1>3. Contents' = [k \in Keys |-> Absent]
  <2>1. Contents' = [k \in Keys |-> Contents'[k]]
    BY DEF Contents
  <2>2. QED
    BY <1>2, <2>1
<1>4. QED
  BY <1>3 DEF Map!Reset, Map!Empty, Map!Returns, Reset, Returns

LEMMA NextIsNext == Sound /\ [Next]_vars => [Map!Next]_(Map!vars)
<1> SUFFICES ASSUME Sound, [Next]_vars
             PROVE  Map!Next \/ UNCHANGED <<Contents, call>>
  BY DEF Map!vars
<1>1. ASSUME NEW key \in Keys, NEW sym \in Symbols, inuse < MaxInserts, Insert(key, sym)
      PROVE  Map!Next
  BY <1>1, InsertIsInsert DEF Map!Next
<1>2. ASSUME NEW key \in Keys, NEW sym \in Symbols, InsertExisting(key, sym)
      PROVE  Map!Next
  <2>1. Contents[key] = First(key).symbol /\ Contents[key] # Absent /\ Contents' = Contents
    BY <1>2, FoundIsThere, SameTable DEF InsertExisting
  <2>2. Map!Insert(key, sym)
    BY <1>2, <2>1 DEF Map!Insert, Map!Returns, InsertExisting, Returns
  <2>3. QED
    BY <2>2 DEF Map!Next
<1>3. ASSUME NEW key \in Keys, NEW sym \in Symbols, Retag(key, sym)
      PROVE  Map!Next
  BY <1>3, RetagIsRetag DEF Map!Next
<1>4. ASSUME NEW key \in Keys, Lookup(key)
      PROVE  Map!Next
  <2>1. ~Found(key) => Halts(key) = {}
    BY <1>4 DEF Lookup, Found, Faults
  <2>2. Contents[key] = IF Found(key) THEN First(key).symbol ELSE Absent
    BY <2>1, FoundIsThere
  <2>3. Contents' = Contents
    BY <1>4, SameTable DEF Lookup
  <2>4. Map!Lookup(key)
    BY <1>4, <2>2, <2>3 DEF Map!Lookup, Map!Returns, Lookup, Returns
  <2>5. QED
    BY <2>4 DEF Map!Next
<1>5. ASSUME NEW key \in Keys, Fault(key)
      PROVE  UNCHANGED <<Contents, call>>
  BY <1>5, SameTable DEF Fault
<1>6. CASE Reset
  BY <1>6, ResetIsReset DEF Map!Next
<1>7. CASE UNCHANGED vars
  BY <1>7, SameTable DEF vars
<1>8. QED
  BY <1>1, <1>2, <1>3, <1>4, <1>5, <1>6, <1>7 DEF Next

\* Every behaviour of the table is one of a map of keys to symbols: buckets,
\* collisions, doublings and failed doublings never show in what a call returns, up
\* to the call that compares a name with the null key of a long one.
THEOREM Implementation == Spec => ImplementsMap
<1>1. Init => Map!Init
  <2> SUFFICES ASSUME Init
               PROVE  Map!Init
    OBVIOUS
  <2>1. GoodTable(table, n) /\ \A x : ~Holds(table, x)
    BY InitSound DEF Sound
  <2>2. \A k \in Keys : Contents[k] = Absent
    BY <2>1, Symbol, ContentsAre
  <2>3. Contents = [k \in Keys |-> Contents[k]]
    BY DEF Contents
  <2>4. Contents = [k \in Keys |-> Absent]
    BY <2>2, <2>3
  <2>5. QED
    BY <2>4 DEF Map!Init, Map!Empty, Init
<1>2. Init => Sound
  BY InitSound
<1>3. Sound /\ [Next]_vars => Sound'
  BY NextSound
<1>4. Sound /\ [Next]_vars => [Map!Next]_(Map!vars)
  BY NextIsNext
<1>5. QED
  BY <1>1, <1>2, <1>3, <1>4, PTL DEF Spec, ImplementsMap, Map!Spec
=============================================================================
