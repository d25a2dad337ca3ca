-------------------------- MODULE AstMemoryProofs --------------------------
(***************************************************************************)
(* What the allocator of AstMemory keeps, for every size of a block, of a  *)
(* page, of nodes and of strings.                                          *)
(*                                                                         *)
(* Everything comes from the arena: a part is cut from below head, where   *)
(* there is none (CutSound), and may be split into smaller ones            *)
(* (SplitSound): a page into nodes or into a string and the rest.          *)
(***************************************************************************)
EXTENDS AstMemory, TLAPS

Arenas == [blocks : Seq(PageWords .. BlockWords), head : Int]

\* A part lies where it may; two parts share no word; PartsSound, of the set P of parts.
Sized(r)    == r.size \in Nat \ {0} /\ r.at \in Addresses
Fits(m, r)  == /\ r.at[1] \in 1 .. Len(m.blocks) /\ First(r) >= 0 /\ Last(r) < m.blocks[r.at[1]]
               /\ r.at[1] = Len(m.blocks) => First(r) >= m.head
Apart(r, s) == r # s /\ r.at[1] = s.at[1] => Last(r) < First(s) \/ Last(s) < First(r)

SoundIn(m, P) == \A r \in P : Sized(r) /\ Fits(m, r) /\ \A s \in P : Apart(r, s)

\* head lies in the last block
HeadIn(m) == m.head >= 0 /\ (m.blocks # <<>> => m.head <= m.blocks[Len(m.blocks)])

LEMMA Sizes ==
  /\ PageWords \in Int /\ PageWords >= 2 /\ BlockWords \in Int /\ BlockWords >= PageWords
  /\ PoolWords = 2
  /\ \A size \in Requests : size \in Int /\ size >= 1
  /\ \A size \in NodeSizes : size \in Int /\ size >= 1 /\ size <= PageWords
  /\ \A len \in Strings : len \in Int /\ len >= 1
  /\ \A granted \in Granted : granted \in PageWords .. BlockWords
BY AstMemoryAssumption DEF AstMemoryAssumption, Granted, PoolWords

LEMMA Places ==
  /\ \A at \in Addresses : /\ at[1] \in Nat /\ at[2] \in Int /\ at = <<at[1], at[2]>>
  /\ \A b \in Nat, w \in Int : <<b, w>> \in Addresses
BY DEF Addresses

(***************************************************************************)
(* The arena.                                                              *)
(***************************************************************************)
LEMMA Spans ==
  ASSUME NEW r, Sized(r)
  PROVE  /\ First(r) \in Int /\ Last(r) \in Int /\ First(r) <= Last(r) /\ r.at[1] \in Nat
         /\ Last(r) = First(r) + r.size - 1
BY Places DEF Sized, First, Last

LEMMA OneMore ==
  ASSUME NEW m, NEW P, SoundIn(m, P), NEW e, Sized(e), Fits(m, e),
         \A q \in P : Apart(q, e) /\ Apart(e, q)
  PROVE  SoundIn(m, P \cup {e})
<1>1. Apart(e, e)
  BY DEF Apart
<1>2. QED
  BY <1>1 DEF SoundIn

LEMMA CutSound ==
  ASSUME NEW m \in Arenas, HeadIn(m), NEW P, SoundIn(m, P),
         NEW size \in Nat \ {0}, \A granted \in Granted : size <= granted,
         NEW r \in Cut(m, size), NEW from
  PROVE  /\ r \in Arenas /\ HeadIn(r)
         /\ Address(r) \in Addresses
         /\ SoundIn(r, P \cup {Extent(Address(r), size, from)})
         /\ Extent(Address(r), size, from) \notin P
<1> DEFINE e == Extent(Address(r), size, from)
<1>1. /\ m.blocks \in Seq(PageWords .. BlockWords) /\ m.head \in Int /\ m.head >= 0
      /\ Len(m.blocks) \in Nat /\ DOMAIN m.blocks = 1 .. Len(m.blocks)
      /\ \A i \in 1 .. Len(m.blocks) : m.blocks[i] \in Int
      /\ m.blocks # <<>> => Len(m.blocks) >= 1 /\ m.head <= m.blocks[Len(m.blocks)]
  BY Sizes DEF Arenas, HeadIn
<1>2. CASE m.blocks # <<>> /\ Suffices(m, size)
  <2>1. r = [m EXCEPT !.head = m.head - size] /\ m.head >= size
    BY <1>1, <1>2 DEF Cut, Suffices
  <2>2. r \in Arenas /\ r.blocks = m.blocks /\ r.head = m.head - size /\ HeadIn(r)
    BY <1>1, <1>2, <2>1 DEF Arenas, HeadIn
  <2>3. /\ e.at = <<Len(m.blocks), m.head - size>> /\ e.size = size
        /\ e.at[1] = Len(m.blocks) /\ First(e) = m.head - size /\ Last(e) = m.head - 1
    BY <1>1, <2>2 DEF Extent, Address, First, Last
  <2>4. e.at \in Addresses /\ Address(r) = e.at
    BY <1>1, <2>3, Places DEF Extent
  <2> HIDE DEF e
  <2>5. Sized(e) /\ Fits(r, e)
    BY <1>1, <1>2, <2>1, <2>2, <2>3, <2>4 DEF Sized, Fits
  <2>6. ASSUME NEW q \in P
        PROVE  Fits(r, q) /\ q # e /\ Apart(q, e) /\ Apart(e, q)
    <3>1. Sized(q) /\ Fits(m, q)
      BY DEF SoundIn
    <3>2. First(q) \in Int /\ First(q) <= Last(q) /\ Last(q) \in Int
      BY <3>1, Spans
    <3>3. Fits(r, q)
      BY <1>1, <2>2, <3>1, <3>2 DEF Fits
    <3>4. q.at[1] = e.at[1] => Last(e) < First(q)
      BY <1>1, <2>3, <3>1, <3>2 DEF Fits
    <3>5. QED
      BY <1>1, <2>3, <2>5, <3>2, <3>3, <3>4, Spans DEF Apart
  <2>7. SoundIn(r, P)
    BY <2>6 DEF SoundIn
  <2>8. SoundIn(r, P \cup {e})
    BY <2>5, <2>6, <2>7, OneMore
  <2>9. QED
    BY <2>2, <2>4, <2>6, <2>8 DEF e
<1>3. CASE ~(m.blocks # <<>> /\ Suffices(m, size))
  <2>1. PICK g \in Granted : r = [blocks |-> Append(m.blocks, g), head |-> g - size]
    BY <1>3 DEF Cut
  <2>2. g \in PageWords .. BlockWords /\ g \in Int /\ size <= g /\ size \in Int /\ size >= 1
    BY Sizes
  <2>3. /\ r \in Arenas /\ r.blocks = Append(m.blocks, g) /\ r.head = g - size
        /\ Len(r.blocks) = Len(m.blocks) + 1 /\ r.blocks[Len(m.blocks) + 1] = g
        /\ \A i \in 1 .. Len(m.blocks) : r.blocks[i] = m.blocks[i]
    BY <1>1, <2>1, <2>2 DEF Arenas
  <2>4. HeadIn(r)
    BY <2>2, <2>3 DEF HeadIn
  <2>5. /\ e.at = <<Len(m.blocks) + 1, g - size>> /\ e.size = size
        /\ e.at[1] = Len(m.blocks) + 1 /\ First(e) = g - size /\ Last(e) = g - 1
    BY <1>1, <2>2, <2>3 DEF Extent, Address, First, Last
  <2>6. Len(m.blocks) + 1 \in Nat /\ g - size \in Int
    BY <1>1, <2>2
  <2>7. e.at \in Addresses /\ Address(r) = e.at
    BY <2>5, <2>6, Places DEF Extent
  <2> HIDE DEF e
  <2>8. Sized(e) /\ Fits(r, e)
    BY <1>1, <2>2, <2>3, <2>5, <2>7 DEF Sized, Fits
  <2>9. ASSUME NEW q \in P
        PROVE  Fits(r, q) /\ q # e /\ Apart(q, e) /\ Apart(e, q)
    <3>1. Sized(q) /\ Fits(m, q)
      BY DEF SoundIn
    <3>2. q.at[1] \in 1 .. Len(m.blocks) /\ q.at[1] # e.at[1]
      BY <1>1, <2>5, <3>1 DEF Fits
    <3>3. QED
      BY <1>1, <2>3, <3>1, <3>2 DEF Fits, Apart
  <2>10. SoundIn(r, P)
    BY <2>9 DEF SoundIn
  <2>11. SoundIn(r, P \cup {e})
    BY <2>8, <2>9, <2>10, OneMore
  <2>12. QED
    BY <2>3, <2>4, <2>7, <2>9, <2>11 DEF e
<1>4. QED
  BY <1>2, <1>3

\* A part may be replaced by smaller ones that lie in it.
LEMMA SplitSound ==
  ASSUME NEW m, NEW P, NEW R, SoundIn(m, P \cup {R}), R \notin P, NEW Q,
         Len(m.blocks) \in Nat, \A i \in 1 .. Len(m.blocks) : m.blocks[i] \in Int, m.head \in Int,
         \A q \in Q : /\ Sized(q) /\ q.at[1] = R.at[1]
                      /\ First(R) <= First(q) /\ Last(q) <= Last(R),
         \A q, s \in Q : Apart(q, s)
  PROVE  /\ SoundIn(m, P \cup Q)
         /\ \A q \in Q : q \notin P
<1>1. Sized(R) /\ Fits(m, R) /\ m.blocks[R.at[1]] \in Int
  BY DEF SoundIn, Fits
<1>2. First(R) \in Int /\ Last(R) \in Int
  BY <1>1, Spans
<1>3. ASSUME NEW q \in Q
      PROVE  /\ Sized(q) /\ Fits(m, q)
             /\ \A s \in P : q # s /\ Apart(q, s) /\ Apart(s, q)
  <2>1. /\ Sized(q) /\ q.at[1] = R.at[1] /\ First(R) <= First(q) /\ Last(q) <= Last(R)
        /\ First(q) \in Int /\ Last(q) \in Int /\ First(q) <= Last(q)
    BY Spans
  <2>2. Fits(m, q)
    BY <1>1, <1>2, <2>1 DEF Fits
  <2>3. ASSUME NEW s \in P
        PROVE  q # s /\ Apart(q, s) /\ Apart(s, q)
    <3>1. Sized(s) /\ Apart(s, R) /\ s # R
      BY DEF SoundIn
    <3>2. First(s) \in Int /\ Last(s) \in Int /\ First(s) <= Last(s)
      BY <3>1, Spans
    <3>3. s.at[1] = R.at[1] => Last(s) < First(R) \/ Last(R) < First(s)
      BY <3>1 DEF Apart
    <3>4. s.at[1] = q.at[1] => Last(s) < First(q) \/ Last(q) < First(s)
      BY <1>2, <2>1, <3>2, <3>3
    <3>5. QED
      BY <2>1, <3>2, <3>4 DEF Apart
  <2>4. QED
    BY <2>1, <2>2, <2>3
<1>4. QED
  BY <1>3 DEF SoundIn

LEMMA FewerSound ==
  ASSUME NEW m, NEW P, SoundIn(m, P), NEW Q, Q \subseteq P
  PROVE  SoundIn(m, Q)
BY DEF SoundIn

\* Two parts do not begin at one address.
LEMMA OneAtAnAddress ==
  ASSUME NEW m, NEW P, SoundIn(m, P), NEW r \in P, NEW s \in P, r.at = s.at
  PROVE  r = s
<1>1. Sized(r) /\ Sized(s) /\ Apart(r, s)
  BY DEF SoundIn
<1>2. First(r) \in Int /\ Last(r) \in Int /\ First(r) <= Last(r) /\ Last(s) \in Int /\ First(s) <= Last(s)
  BY <1>1, Spans
<1>3. First(r) = First(s)
  BY DEF First
<1>4. QED
  BY <1>1, <1>2, <1>3 DEF Apart

(***************************************************************************)
(* The nodes of a page.                                                    *)
(***************************************************************************)
LEMMA Multiples ==
  ASSUME NEW a \in Int, NEW b \in Int, a < b, NEW s \in Int, s >= 1
  PROVE  a * s \in Int /\ b * s \in Int /\ a * s + s <= b * s
<1>1. (b - a - 1) * s >= 0
  OBVIOUS
<1>2. (b - a - 1) * s = b * s - a * s - s
  OBVIOUS
<1>3. QED
  BY <1>1, <1>2

LEMMA PageDivided ==
  ASSUME NEW size \in NodeSizes
  PROVE  LET n == PageWords \div size
         IN  n \in Int /\ n >= 1 /\ n * size \in Int /\ n * size <= PageWords
BY Sizes

LEMMA NodesApart ==
  ASSUME NEW page \in Addresses, NEW size \in NodeSizes
  PROVE  LET n == PageWords \div size
             nodes == Nodes(page, size)
         IN  /\ n \in Int /\ n >= 1 /\ nodes \in Seq(Addresses) /\ Len(nodes) = n
             /\ \A i \in 1 .. n : /\ nodes[i] \in Addresses /\ nodes[i][1] = page[1]
                                  /\ page[2] <= nodes[i][2]
                                  /\ nodes[i][2] + size <= page[2] + PageWords
             /\ \A i, j \in 1 .. n : i < j => nodes[j][2] + size <= nodes[i][2]
<1> DEFINE n == PageWords \div size
           nodes == Nodes(page, size)
<1>1. n \in Int /\ n >= 1 /\ n * size \in Int /\ n * size <= PageWords
  BY PageDivided
<1>2. nodes = [i \in 1 .. n |-> <<page[1], page[2] + (n - i) * size>>]
  BY DEF Nodes
<1> HIDE DEF n, nodes
<1>3. size \in Int /\ size >= 1 /\ page[1] \in Nat /\ page[2] \in Int
  BY Sizes, Places
<1>4. ASSUME NEW i \in 1 .. n
      PROVE  /\ (n - i) * size \in Int /\ (n - i) * size >= 0
             /\ (n - i) * size + size <= n * size
  BY <1>1, <1>3, <1>4, Multiples
<1>5. ASSUME NEW i \in 1 .. n, NEW j \in 1 .. n, i < j
      PROVE  (n - j) * size + size <= (n - i) * size
  BY <1>1, <1>3, <1>5, Multiples
<1>6. \A i \in 1 .. n : nodes[i] \in Addresses /\ nodes[i][1] = page[1]
                        /\ nodes[i][2] = page[2] + (n - i) * size
  BY <1>2, <1>3, <1>4, Places
<1>7. nodes \in Seq(Addresses) /\ Len(nodes) = n
  BY <1>1, <1>2, <1>6
<1>8. ASSUME NEW i \in 1 .. n
      PROVE  page[2] <= nodes[i][2] /\ nodes[i][2] + size <= page[2] + PageWords
  BY <1>1, <1>3, <1>4, <1>6, Sizes
<1>9. ASSUME NEW i \in 1 .. n, NEW j \in 1 .. n, i < j
      PROVE  nodes[j][2] + size <= nodes[i][2]
  BY <1>3, <1>4, <1>5, <1>6, <1>9
<1>10. /\ n \in Int /\ n >= 1 /\ nodes \in Seq(Addresses) /\ Len(nodes) = n
       /\ \A i \in 1 .. n : /\ nodes[i] \in Addresses /\ nodes[i][1] = page[1]
                            /\ page[2] <= nodes[i][2]
                            /\ nodes[i][2] + size <= page[2] + PageWords
       /\ \A i, j \in 1 .. n : i < j => nodes[j][2] + size <= nodes[i][2]
  BY <1>1, <1>6, <1>7, <1>8, <1>9
<1>11. QED
  BY <1>10 DEF n, nodes

(***************************************************************************)
(* The four sets of parts, of free lists and pools ps, a string page s and *)
(* a set g of extents clients own, and what IInv says of them.             *)
(***************************************************************************)
FreeIn(ps)  == UNION {{Extent(ps[j].free[p], ps[j].size, j) : p \in DOMAIN ps[j].free} : j \in DOMAIN ps}
HeadersOf(ps) == {Extent(ps[j].header, PoolWords, 0) : j \in DOMAIN ps}
RestOf(s)     == {r \in {Extent(s.at, s.left, 0)} : r.size > 0}
PartsOf(g, ps, s) == g \cup FreeIn(ps) \cup HeadersOf(ps) \cup RestOf(s)

OneToOne(F) == \A p, q \in DOMAIN F : F[p] = F[q] => p = q
Once(g, ps) ==
  \A j \in DOMAIN ps : \A p, q \in DOMAIN ps[j].free :
    /\ ps[j].free[p] = ps[j].free[q] => p = q
    /\ \A r \in g : r.at # ps[j].free[p]
OfPools(g, ps) == \A r \in g : r.from # 0 => r.from \in DOMAIN ps /\ r.size = ps[r.from].size
RestFree(g, ps, s) == RestOf(s) \cap (g \cup HeadersOf(ps)) = {}

Pages == [at : Addresses, left : 0 .. PageWords]
Typed(g, ps, s) == g \subseteq Extents /\ ps \in Seq(Pools) /\ s \in Pages
Good(m, g, ps, s) ==
  /\ m \in Arenas /\ HeadIn(m) /\ Typed(g, ps, s) /\ OfPools(g, ps)
  /\ SoundIn(m, PartsOf(g, ps, s)) /\ Once(g, ps) /\ RestFree(g, ps, s)

LEMMA Fields ==
  \A at, size, from : /\ Extent(at, size, from).at = at
                      /\ Extent(at, size, from).size = size
                      /\ Extent(at, size, from).from = from
BY DEF Extent

LEMMA Typing ==
  ASSUME NEW at \in Addresses, NEW size \in Requests \cup NodeSizes \cup Strings, NEW from \in Nat
  PROVE  Extent(at, size, from) \in Extents
BY DEF Extent, Extents

LEMMA PoolsTyped ==
  ASSUME NEW ps \in Seq(Pools), NEW j \in DOMAIN ps
  PROVE  /\ j \in Nat /\ j # 0 /\ ps[j] \in Pools
         /\ ps[j].size \in NodeSizes /\ ps[j].header \in Addresses /\ ps[j].free \in Seq(Addresses)
<1>1. j \in 1 .. Len(ps) /\ Len(ps) \in Nat /\ ps[j] \in Pools
  OBVIOUS
<1>2. QED
  BY <1>1 DEF Pools

\* A free node knows its pool, and is nobody else's part.
LEMMA FreeOnes ==
  ASSUME NEW ps \in Seq(Pools), NEW f \in FreeIn(ps)
  PROVE  /\ f.from \in DOMAIN ps /\ f.from # 0 /\ f.size = ps[f.from].size
         /\ \E p \in DOMAIN ps[f.from].free : f.at = ps[f.from].free[p]
BY PoolsTyped, Fields DEF FreeIn

LEMMA FreeAt ==
  ASSUME NEW ps, NEW j \in DOMAIN ps, NEW p \in DOMAIN ps[j].free
  PROVE  Extent(ps[j].free[p], ps[j].size, j) \in FreeIn(ps)
BY DEF FreeIn

LEMMA Unowned ==
  ASSUME NEW g, NEW ps, NEW s
  PROVE  /\ \A r \in RestOf(s) \cup HeadersOf(ps) : r.from = 0
         /\ \A r \in RestOf(s) : r = Extent(s.at, s.left, 0)
BY Fields DEF RestOf, HeadersOf

\* Once, from soundness: a part of the arena that is no free node begins at none.
LEMMA NotFree ==
  ASSUME NEW m, NEW P, SoundIn(m, P), NEW ps \in Seq(Pools), FreeIn(ps) \subseteq P,
         NEW e \in P, e \notin FreeIn(ps)
  PROVE  \A j \in DOMAIN ps : \A p \in DOMAIN ps[j].free : e.at # ps[j].free[p]
<1> SUFFICES ASSUME NEW j \in DOMAIN ps, NEW p \in DOMAIN ps[j].free, e.at = ps[j].free[p]
             PROVE  FALSE
  OBVIOUS
<1> DEFINE f == Extent(ps[j].free[p], ps[j].size, j)
<1>1. f \in FreeIn(ps) /\ f.at = e.at
  BY FreeAt, Fields
<1> HIDE DEF f
<1>2. f = e
  BY <1>1, OneAtAnAddress
<1>3. QED
  BY <1>1, <1>2

WithFree(ps, j, F) == [ps EXCEPT ![j].free = F]

LEMMA NewFree ==
  ASSUME NEW ps \in Seq(Pools), NEW j \in DOMAIN ps, NEW F \in Seq(Addresses), NEW qs,
         qs = WithFree(ps, j, F)
  PROVE  /\ qs \in Seq(Pools) /\ DOMAIN qs = DOMAIN ps
         /\ \A k \in DOMAIN ps : qs[k].size = ps[k].size /\ qs[k].header = ps[k].header
         /\ qs[j].free = F /\ \A k \in DOMAIN ps : k # j => qs[k].free = ps[k].free
         /\ HeadersOf(qs) = HeadersOf(ps)
<1>1. /\ ps \in [1 .. Len(ps) -> Pools] /\ Len(ps) \in Nat /\ j \in 1 .. Len(ps)
      /\ DOMAIN ps = 1 .. Len(ps)
  OBVIOUS
<1>2. /\ DOMAIN qs = DOMAIN ps
      /\ qs[j] = [ps[j] EXCEPT !.free = F]
      /\ \A k \in DOMAIN ps : k # j => qs[k] = ps[k]
      /\ qs = [k \in 1 .. Len(ps) |-> qs[k]]
  BY <1>1 DEF WithFree
<1>3. qs[j] \in Pools /\ qs[j].size = ps[j].size /\ qs[j].header = ps[j].header /\ qs[j].free = F
  <2>1. ps[j] \in Pools
    BY <1>1
  <2>2. QED
    BY <1>2, <2>1 DEF Pools
<1>4. \A k \in 1 .. Len(ps) : qs[k] \in Pools
  BY <1>1, <1>2, <1>3
<1>5. qs \in Seq(Pools)
  BY <1>1, <1>2, <1>4
<1>6. HeadersOf(qs) = HeadersOf(ps)
  <2>1. DOMAIN qs = DOMAIN ps /\ \A k \in DOMAIN ps : qs[k].header = ps[k].header
    BY <1>2, <1>3
  <2>2. QED
    BY <2>1, Zenon DEF HeadersOf
<1>7. QED
  BY <1>2, <1>3, <1>5, <1>6

LEMMA NewFreeNodes ==
  ASSUME NEW ps \in Seq(Pools), NEW j \in DOMAIN ps, NEW F \in Seq(Addresses), NEW qs,
         qs = WithFree(ps, j, F), NEW f \in FreeIn(qs)
  PROVE  \/ f \in FreeIn(ps)
         \/ \E p \in DOMAIN F : f = Extent(F[p], ps[j].size, j)
<1>1. PICK k \in DOMAIN qs : \E p \in DOMAIN qs[k].free : f = Extent(qs[k].free[p], qs[k].size, k)
  BY DEF FreeIn
<1>2. /\ k \in DOMAIN ps /\ qs[k].size = ps[k].size
      /\ k = j => qs[k].free = F
      /\ k # j => qs[k].free = ps[k].free
  BY <1>1, NewFree
<1>3. QED
  BY <1>1, <1>2, FreeAt

LEMMA NewFreeOnce ==
  ASSUME NEW ps \in Seq(Pools), NEW j \in DOMAIN ps, NEW F \in Seq(Addresses), NEW qs,
         qs = WithFree(ps, j, F), OneToOne(F), NEW g, NEW h, Once(g, ps),
         \A r \in h : /\ \A p \in DOMAIN F : r.at # F[p]
                      /\ \/ r \in g
                         \/ \A k \in DOMAIN ps : k # j => \A p \in DOMAIN ps[k].free : r.at # ps[k].free[p]
  PROVE  Once(h, qs)
<1>1. /\ DOMAIN qs = DOMAIN ps /\ qs[j].free = F
      /\ \A k \in DOMAIN ps : k # j => qs[k].free = ps[k].free
  BY NewFree
<1>2. QED
  BY <1>1 DEF Once, OneToOne

LEMMA SameOfPools ==
  ASSUME NEW ps, NEW qs, NEW g, OfPools(g, ps), NEW h,
         \A k \in DOMAIN ps : k \in DOMAIN qs /\ qs[k].size = ps[k].size,
         \A r \in h : \/ r \in g \/ r.from = 0
                      \/ r.from \in DOMAIN qs /\ r.size = qs[r.from].size
  PROVE  OfPools(h, qs)
BY DEF OfPools

\* A page cut into nodes.
PartsAt(nodes, size, j) == {Extent(nodes[i], size, j) : i \in DOMAIN nodes}

LEMMA PageOfNodes ==
  ASSUME NEW m \in Arenas, HeadIn(m), NEW P, SoundIn(m, P), NEW r \in Cut(m, PageWords),
         NEW size \in NodeSizes, NEW j
  PROVE  LET nodes == Nodes(Address(r), size)
         IN  /\ r \in Arenas /\ HeadIn(r)
             /\ nodes \in Seq(Addresses) /\ nodes # <<>> /\ OneToOne(nodes)
             /\ SoundIn(r, P \cup PartsAt(nodes, size, j))
             /\ \A q \in P : \A i \in DOMAIN nodes : q.at # nodes[i]
<1> DEFINE nodes == Nodes(Address(r), size)
           n == PageWords \div size
           R == Extent(Address(r), PageWords, 0)
           Q == PartsAt(nodes, size, j)
<1>1. /\ r \in Arenas /\ HeadIn(r) /\ Address(r) \in Addresses
      /\ SoundIn(r, P \cup {R}) /\ R \notin P
  <2>1. PageWords \in Nat \ {0} /\ \A granted \in Granted : PageWords <= granted
    BY Sizes
  <2>2. QED
    BY <2>1, CutSound
<1>2. /\ n \in Int /\ n >= 1 /\ nodes \in Seq(Addresses) /\ Len(nodes) = n
      /\ \A i \in 1 .. n : /\ nodes[i] \in Addresses /\ nodes[i][1] = Address(r)[1]
                           /\ Address(r)[2] <= nodes[i][2]
                           /\ nodes[i][2] + size <= Address(r)[2] + PageWords
      /\ \A i, k \in 1 .. n : i < k => nodes[k][2] + size <= nodes[i][2]
  BY <1>1, NodesApart
<1>3. R.at = Address(r) /\ R.size = PageWords
  BY Fields
<1> HIDE DEF nodes, n, R
<1>4. size \in Int /\ size >= 1 /\ PageWords \in Int /\ DOMAIN nodes = 1 .. n
  BY <1>2, Sizes
<1>5. \A i \in 1 .. n : nodes[i][2] \in Int
  BY <1>2, Places
<1>6. \A i, k \in 1 .. n : i # k => nodes[k][2] + size <= nodes[i][2] \/ nodes[i][2] + size <= nodes[k][2]
  BY <1>2
<1>7. OneToOne(nodes)
  BY <1>4, <1>5, <1>6 DEF OneToOne
<1>8. \A q \in Q : \E i \in 1 .. n : q.at = nodes[i] /\ q.size = size /\ q = Extent(nodes[i], size, j)
  BY <1>4, Fields DEF PartsAt
<1>9. ASSUME NEW q \in Q
      PROVE  Sized(q) /\ q.at[1] = R.at[1] /\ First(R) <= First(q) /\ Last(q) <= Last(R)
  <2>1. PICK i \in 1 .. n : q.at = nodes[i] /\ q.size = size
    BY <1>8
  <2>2. Address(r)[2] \in Int
    BY <1>1, Places
  <2>3. Sized(q) /\ q.at[1] = R.at[1]
    BY <1>2, <1>3, <1>4, <2>1 DEF Sized
  <2>4. QED
    BY <1>2, <1>3, <1>4, <1>5, <2>1, <2>2, <2>3 DEF First, Last
<1>10. ASSUME NEW q \in Q, NEW s \in Q
       PROVE  Apart(q, s)
  <2>1. PICK i \in 1 .. n : q.at = nodes[i] /\ q.size = size /\ q = Extent(nodes[i], size, j)
    BY <1>8
  <2>2. PICK k \in 1 .. n : s.at = nodes[k] /\ s.size = size /\ s = Extent(nodes[k], size, j)
    BY <1>8
  <2>3. CASE i = k
    BY <2>1, <2>2, <2>3 DEF Apart
  <2>4. CASE i # k
    <3>1. /\ First(q) = nodes[i][2] /\ Last(q) = nodes[i][2] + size - 1
          /\ First(s) = nodes[k][2] /\ Last(s) = nodes[k][2] + size - 1
      BY <2>1, <2>2 DEF First, Last
    <3>2. nodes[i][2] \in Int /\ nodes[k][2] \in Int
      BY <1>5
    <3>3. QED
      BY <1>4, <1>6, <2>4, <3>1, <3>2 DEF Apart
  <2>5. QED
    BY <2>3, <2>4
<1>11. /\ Len(r.blocks) \in Nat /\ \A i \in 1 .. Len(r.blocks) : r.blocks[i] \in Int
       /\ r.head \in Int
  <2>1. r.blocks \in Seq(PageWords .. BlockWords) /\ r.head \in Int
    BY <1>1 DEF Arenas
  <2>2. QED
    BY <2>1, Sizes
<1> HIDE DEF Q
<1>12. SoundIn(r, P \cup Q) /\ \A q \in Q : q \notin P
  BY <1>1, <1>9, <1>10, <1>11, SplitSound
<1>13. \A q \in P : \A i \in DOMAIN nodes : q.at # nodes[i]
  <2> SUFFICES ASSUME NEW q \in P, NEW i \in DOMAIN nodes, q.at = nodes[i]
               PROVE  FALSE
    OBVIOUS
  <2>1. Extent(nodes[i], size, j) \in Q /\ Extent(nodes[i], size, j).at = q.at
    BY Fields DEF Q, PartsAt
  <2>2. Extent(nodes[i], size, j) = q
    BY <1>12, <2>1, OneAtAnAddress
  <2>3. QED
    BY <1>12, <2>1, <2>2
<1>ww. nodes # <<>>
  BY <1>2
<1>w. QED
  BY <1>1, <1>2, <1>7, <1>12, <1>13, <1>ww DEF nodes, Q

(***************************************************************************)
(* What each operation leaves, from a good state.                          *)
(***************************************************************************)
LEMMA OnlyParts ==
  ASSUME NEW m, NEW g, NEW ps, NEW s, Good(m, g, ps, s)
  PROVE  /\ m \in Arenas /\ HeadIn(m) /\ SoundIn(m, PartsOf(g, ps, s)) /\ Once(g, ps)
         /\ g \subseteq PartsOf(g, ps, s) /\ FreeIn(ps) \subseteq PartsOf(g, ps, s)
         /\ HeadersOf(ps) \subseteq PartsOf(g, ps, s) /\ RestOf(s) \subseteq PartsOf(g, ps, s)
         /\ g \subseteq Extents /\ ps \in Seq(Pools) /\ s \in Pages
         /\ OfPools(g, ps) /\ RestFree(g, ps, s)
BY DEF Good, Typed, PartsOf

LEMMA GeneralGood ==
  ASSUME NEW m, NEW g, NEW ps, NEW s, Good(m, g, ps, s), RequestsFit,
         NEW size \in Requests, NEW r \in Cut(m, size)
  PROVE  Good(r, g \cup {Extent(Address(r), size, 0)}, ps, s)
<1> DEFINE e == Extent(Address(r), size, 0)
           P == PartsOf(g, ps, s)
<1>1. /\ r \in Arenas /\ HeadIn(r) /\ Address(r) \in Addresses
      /\ SoundIn(r, P \cup {e}) /\ e \notin P
  <2>1. size \in Nat \ {0} /\ \A granted \in Granted : size <= granted
    BY Sizes DEF RequestsFit
  <2>2. QED
    BY <2>1, OnlyParts, CutSound
<1>2. e \in Extents /\ e.from = 0
  BY <1>1, Typing, Fields
<1> HIDE DEF e
<1>3. Typed(g \cup {e}, ps, s) /\ OfPools(g \cup {e}, ps) /\ RestFree(g \cup {e}, ps, s)
  BY <1>1, <1>2, OnlyParts DEF Typed, OfPools, RestFree
<1>4. SoundIn(r, PartsOf(g \cup {e}, ps, s))
  <2>1. PartsOf(g \cup {e}, ps, s) = P \cup {e}
    BY DEF PartsOf
  <2>2. QED
    BY <1>1, <2>1
<1>5. Once(g \cup {e}, ps)
  <2>1. \A j \in DOMAIN ps : \A p \in DOMAIN ps[j].free : e.at # ps[j].free[p]
    BY <1>1, OnlyParts, NotFree
  <2>2. QED
    BY <2>1, OnlyParts DEF Once
<1>6. QED
  BY <1>1, <1>3, <1>4, <1>5 DEF Good, e

LEMMA FromGood ==
  ASSUME NEW m, NEW g, NEW ps, NEW s, Good(m, g, ps, s),
         NEW j \in DOMAIN ps, ps[j].free # <<>>,
         NEW qs, qs = WithFree(ps, j, Tail(ps[j].free))
  PROVE  Good(m, g \cup {Extent(Head(ps[j].free), ps[j].size, j)}, qs, s)
<1> DEFINE F == ps[j].free
           G == Tail(F)
           e == Extent(Head(F), ps[j].size, j)
           P == PartsOf(g, ps, s)
<1>1. /\ m \in Arenas /\ HeadIn(m) /\ SoundIn(m, P) /\ Once(g, ps)
      /\ g \subseteq P /\ FreeIn(ps) \subseteq P /\ HeadersOf(ps) \subseteq P /\ RestOf(s) \subseteq P
      /\ g \subseteq Extents /\ ps \in Seq(Pools) /\ s \in Pages
      /\ OfPools(g, ps) /\ RestFree(g, ps, s)
  BY OnlyParts
<1>2. /\ j \in Nat /\ j # 0 /\ F \in Seq(Addresses) /\ Head(F) \in Addresses /\ ps[j].size \in NodeSizes
      /\ OneToOne(F)
  BY <1>1, PoolsTyped DEF Once, OneToOne
<1>3. /\ 1 \in DOMAIN F /\ F[1] = Head(F) /\ G \in Seq(Addresses)
      /\ \A p \in DOMAIN G : p \in Nat /\ p + 1 \in DOMAIN F /\ p + 1 # 1 /\ G[p] = F[p + 1]
  BY <1>2
<1>4. e \in Extents /\ e.from = j /\ e.size = ps[j].size /\ e.at = F[1] /\ e \in FreeIn(ps)
  BY <1>2, <1>3, Typing, Fields, FreeAt
<1>5. OneToOne(G)
  BY <1>2, <1>3 DEF OneToOne
<1>6. \A r \in g : \A p \in DOMAIN F : r.at # F[p]
  BY <1>1 DEF Once
<1>7. \A p \in DOMAIN G : Extent(G[p], ps[j].size, j) \in FreeIn(ps)
  BY <1>3, FreeAt
<1>8. qs = WithFree(ps, j, G)
  OBVIOUS
<1> HIDE DEF e, G, F, P
<1>9. /\ qs \in Seq(Pools) /\ DOMAIN qs = DOMAIN ps
      /\ \A k \in DOMAIN ps : qs[k].size = ps[k].size
      /\ HeadersOf(qs) = HeadersOf(ps)
  BY <1>3, <1>1, <1>8, NewFree
<1>10. FreeIn(qs) \subseteq FreeIn(ps)
  <2> SUFFICES ASSUME NEW f \in FreeIn(qs)
               PROVE  f \in FreeIn(ps)
    OBVIOUS
  <2>1. f \in FreeIn(ps) \/ \E p \in DOMAIN G : f = Extent(G[p], ps[j].size, j)
    BY <1>3, <1>1, <1>8, NewFreeNodes
  <2>2. QED
    BY <1>7, <2>1
<1>11. SoundIn(m, PartsOf(g \cup {e}, qs, s))
  <2>1. PartsOf(g \cup {e}, qs, s) \subseteq P
    <3>1. e \in FreeIn(ps) /\ FreeIn(qs) \subseteq FreeIn(ps) /\ HeadersOf(qs) = HeadersOf(ps)
      BY <1>4, <1>9, <1>10
    <3>2. QED
      BY <3>1 DEF PartsOf, P
  <2>2. QED
    BY <2>1, <1>1, FewerSound
<1>12. Once(g \cup {e}, qs)
  <2>1. \A p \in DOMAIN G : e.at # G[p]
    BY <1>2, <1>3, <1>4 DEF OneToOne
  <2>2. \A r \in g : \A p \in DOMAIN G : r.at # G[p]
    BY <1>3, <1>6
  <2>3. ASSUME NEW k \in DOMAIN ps, k # j, NEW p \in DOMAIN ps[k].free
        PROVE  e.at # ps[k].free[p]
    <3> DEFINE f == Extent(ps[k].free[p], ps[k].size, k)
    <3>1. f \in P /\ e \in P /\ f.at = ps[k].free[p] /\ f.from = k
      BY <1>4, FreeAt, Fields, <1>1
    <3> HIDE DEF f
    <3>2. f # e
      BY <1>4, <2>3, <3>1
    <3>3. QED
      BY <3>1, <3>2, OneAtAnAddress, <1>1
  <2>4. QED
    BY <1>3, <1>5, <2>1, <2>2, <2>3, <1>1, <1>8, NewFreeOnce
<1>13. OfPools(g \cup {e}, qs)
  <2>1. e.from \in DOMAIN qs /\ e.size = qs[e.from].size
    BY <1>4, <1>9
  <2>2. \A k \in DOMAIN ps : k \in DOMAIN qs /\ qs[k].size = ps[k].size
    BY <1>9
  <2>3. QED
    BY <2>1, <2>2, <1>1, SameOfPools
<1>14. RestFree(g \cup {e}, qs, s)
  BY <1>2, <1>4, <1>9, <1>1, Unowned DEF RestFree
<1>15. Typed(g \cup {e}, qs, s)
  BY <1>4, <1>9, <1>1 DEF Typed
<1>16. QED
  BY <1>11, <1>12, <1>13, <1>14, <1>15, <1>1 DEF Good, e, F

LEMMA ToGood ==
  ASSUME NEW m, NEW g, NEW ps, NEW s, Good(m, g, ps, s),
         NEW j \in DOMAIN ps, NEW r \in g, r.from = j
  PROVE  Good(m, g \ {r}, WithFree(ps, j, <<r.at>> \o ps[j].free), s)
<1> DEFINE qs == WithFree(ps, j, <<r.at>> \o ps[j].free)
           F == ps[j].free
           G == <<r.at>> \o F
           h == g \ {r}
           P == PartsOf(g, ps, s)
<1>1. /\ m \in Arenas /\ HeadIn(m) /\ SoundIn(m, P) /\ Once(g, ps)
      /\ g \subseteq P /\ FreeIn(ps) \subseteq P /\ HeadersOf(ps) \subseteq P /\ RestOf(s) \subseteq P
      /\ g \subseteq Extents /\ ps \in Seq(Pools) /\ s \in Pages
      /\ OfPools(g, ps) /\ RestFree(g, ps, s)
  BY OnlyParts
<1>2. /\ j \in Nat /\ j # 0 /\ F \in Seq(Addresses)
      /\ OneToOne(F) /\ \A q \in g : \A p \in DOMAIN F : q.at # F[p]
  BY <1>1, PoolsTyped DEF Once, OneToOne
<1>3. r \in Extents /\ r.at \in Addresses /\ r.size = ps[j].size /\ r = Extent(r.at, ps[j].size, j)
  BY <1>1, <1>2 DEF OfPools, Extents, Extent
<1>4. /\ G \in Seq(Addresses) /\ G[1] = r.at
      /\ \A p \in DOMAIN G : p = 1 \/ (p - 1 \in DOMAIN F /\ G[p] = F[p - 1] /\ p \in Int)
  BY <1>2, <1>3
<1>5. \A p \in DOMAIN F : Extent(F[p], ps[j].size, j) \in FreeIn(ps)
  BY FreeAt
<1>6. qs = WithFree(ps, j, G)
  OBVIOUS
<1> HIDE DEF F, G, P, qs
<1>7. OneToOne(G)
  BY <1>2, <1>4 DEF OneToOne
<1>8. /\ qs \in Seq(Pools) /\ DOMAIN qs = DOMAIN ps
      /\ \A k \in DOMAIN ps : qs[k].size = ps[k].size
      /\ HeadersOf(qs) = HeadersOf(ps)
  <2>1. ps \in Seq(Pools) /\ G \in Seq(Addresses)
    BY <1>1, <1>4
  <2>2. QED
    BY <2>1, <1>6, NewFree
<1>9. \A f \in FreeIn(qs) : f \in FreeIn(ps) \/ f = r
  <2> SUFFICES ASSUME NEW f \in FreeIn(qs)
               PROVE  f \in FreeIn(ps) \/ f = r
    OBVIOUS
  <2>1. f \in FreeIn(ps) \/ \E p \in DOMAIN G : f = Extent(G[p], ps[j].size, j)
    BY <1>1, <1>4, <1>6, NewFreeNodes
  <2>2. QED
    BY <1>3, <1>4, <1>5, <2>1
<1>10. SoundIn(m, PartsOf(h, qs, s))
  <2>1. PartsOf(h, qs, s) \subseteq P
    BY <1>8, <1>9 DEF PartsOf, P
  <2>2. QED
    BY <1>1, <2>1, FewerSound
<1>11. Once(h, qs)
  <2>1. ASSUME NEW q \in h, NEW p \in DOMAIN G
        PROVE  q.at # G[p]
    <3>1. q \in g /\ q \in P /\ r \in P /\ q # r
      BY <1>1
    <3>2. q.at # r.at
      BY <1>1, <3>1, OneAtAnAddress
    <3>3. QED
      BY <1>2, <1>4, <3>1, <3>2
  <2>2. QED
    BY <1>1, <1>4, <1>6, <1>7, <2>1, NewFreeOnce
<1>12. OfPools(h, qs)
  <2>1. \A k \in DOMAIN ps : k \in DOMAIN qs /\ qs[k].size = ps[k].size
    BY <1>8
  <2>2. QED
    BY <1>1, <2>1, SameOfPools
<1>13. RestFree(h, qs, s) /\ Typed(h, qs, s)
  BY <1>1, <1>8 DEF RestFree, Typed
<1>14. QED
  BY <1>1, <1>10, <1>11, <1>12, <1>13 DEF Good, qs

LEMMA FromNewPageGood ==
  ASSUME NEW m, NEW g, NEW ps, NEW s, Good(m, g, ps, s),
         NEW j \in DOMAIN ps, ps[j].free = <<>>, NEW r \in Cut(m, PageWords)
  PROVE  LET nodes == Nodes(Address(r), ps[j].size)
         IN  Good(r, g \cup {Extent(Head(nodes), ps[j].size, j)}, WithFree(ps, j, Tail(nodes)), s)
<1> DEFINE nodes == Nodes(Address(r), ps[j].size)
           qs == WithFree(ps, j, Tail(nodes))
           G == Tail(nodes)
           e == Extent(Head(nodes), ps[j].size, j)
           h == g \cup {e}
           P == PartsOf(g, ps, s)
           Q == PartsAt(nodes, ps[j].size, j)
<1>1. /\ m \in Arenas /\ HeadIn(m) /\ SoundIn(m, P) /\ Once(g, ps)
      /\ g \subseteq P /\ FreeIn(ps) \subseteq P /\ HeadersOf(ps) \subseteq P /\ RestOf(s) \subseteq P
      /\ g \subseteq Extents /\ ps \in Seq(Pools) /\ s \in Pages
      /\ OfPools(g, ps) /\ RestFree(g, ps, s)
  BY OnlyParts
<1>2. j \in Nat /\ j # 0 /\ ps[j].size \in NodeSizes
  BY <1>1, PoolsTyped
<1> HIDE DEF P
<1>3. /\ r \in Arenas /\ HeadIn(r)
      /\ nodes \in Seq(Addresses) /\ nodes # <<>> /\ OneToOne(nodes)
      /\ SoundIn(r, P \cup Q)
      /\ \A q \in P : \A i \in DOMAIN nodes : q.at # nodes[i]
  <2>1. m \in Arenas /\ HeadIn(m) /\ SoundIn(m, P) /\ ps[j].size \in NodeSizes
    BY <1>1, <1>2
  <2>2. QED
    BY <2>1, PageOfNodes
<1> HIDE DEF nodes, Q
<1>4. /\ 1 \in DOMAIN nodes /\ nodes[1] = Head(nodes) /\ Head(nodes) \in Addresses
      /\ G \in Seq(Addresses)
      /\ \A p \in DOMAIN G : p \in Nat /\ p + 1 \in DOMAIN nodes /\ p + 1 # 1 /\ G[p] = nodes[p + 1]
  BY <1>3
<1>5. e \in Extents /\ e.from = j /\ e.size = ps[j].size /\ e.at = nodes[1] /\ e \in Q
  BY <1>2, <1>4, Typing, Fields DEF Q, PartsAt
<1>6. qs = WithFree(ps, j, G)
  BY DEF qs
<1>7. \A p \in DOMAIN G : Extent(G[p], ps[j].size, j) \in Q
  BY <1>4 DEF Q, PartsAt
<1> HIDE DEF e, G, qs
<1>8. OneToOne(G)
  BY <1>3, <1>4 DEF OneToOne
<1>9. /\ qs \in Seq(Pools) /\ DOMAIN qs = DOMAIN ps
      /\ \A k \in DOMAIN ps : qs[k].size = ps[k].size
      /\ HeadersOf(qs) = HeadersOf(ps)
  <2>1. ps \in Seq(Pools) /\ G \in Seq(Addresses)
    BY <1>1, <1>4
  <2>2. QED
    BY <2>1, <1>6, NewFree
<1>10. FreeIn(qs) \subseteq FreeIn(ps) \cup Q
  <2> SUFFICES ASSUME NEW f \in FreeIn(qs)
               PROVE  f \in FreeIn(ps) \cup Q
    OBVIOUS
  <2>1. f \in FreeIn(ps) \/ \E p \in DOMAIN G : f = Extent(G[p], ps[j].size, j)
    BY <1>1, <1>4, <1>6, NewFreeNodes
  <2>2. QED
    BY <1>7, <2>1
<1>11. SoundIn(r, PartsOf(h, qs, s))
  <2>1. PartsOf(h, qs, s) \subseteq P \cup Q
    BY <1>5, <1>9, <1>10 DEF PartsOf, P
  <2>2. QED
    BY <1>3, <2>1, FewerSound
<1>12. Once(h, qs)
  <2>1. ASSUME NEW q \in h, NEW p \in DOMAIN G
        PROVE  q.at # G[p]
    BY <1>1, <1>3, <1>4, <1>5 DEF OneToOne
  <2>2. ASSUME NEW k \in DOMAIN ps, k # j, NEW p \in DOMAIN ps[k].free
        PROVE  e.at # ps[k].free[p]
    <3> DEFINE f == Extent(ps[k].free[p], ps[k].size, k)
    <3>1. f \in P /\ f.at = ps[k].free[p]
      BY <1>1, FreeAt, Fields
    <3> HIDE DEF f
    <3>2. QED
      BY <1>3, <1>4, <1>5, <3>1
  <2>3. QED
    BY <1>1, <1>4, <1>6, <1>8, <2>1, <2>2, NewFreeOnce
<1>13. OfPools(h, qs)
  <2>1. e.from \in DOMAIN qs /\ e.size = qs[e.from].size
    BY <1>5, <1>9
  <2>2. \A k \in DOMAIN ps : k \in DOMAIN qs /\ qs[k].size = ps[k].size
    BY <1>9
  <2>3. QED
    BY <1>1, <2>1, <2>2, SameOfPools
<1>14. RestFree(h, qs, s)
  BY <1>1, <1>2, <1>5, <1>9, Unowned DEF RestFree
<1>15. Typed(h, qs, s)
  BY <1>1, <1>5, <1>9 DEF Typed
<1>16. QED
  BY <1>3, <1>11, <1>12, <1>13, <1>14, <1>15 DEF Good, e, nodes, qs

LEMMA Joined ==
  ASSUME NEW ps \in Seq(Pools), NEW pool \in Pools
  PROVE  LET qs == Append(ps, pool)
             j == Len(ps) + 1
         IN  /\ qs \in Seq(Pools) /\ DOMAIN qs = DOMAIN ps \cup {j} /\ j \in Nat /\ j # 0
             /\ qs[j] = pool /\ j \notin DOMAIN ps
             /\ \A k \in DOMAIN ps : qs[k] = ps[k]
OBVIOUS

LEMMA PoolGood ==
  ASSUME NEW m, NEW g, NEW ps, NEW s, Good(m, g, ps, s), NEW size \in NodeSizes,
         NEW r \in Cut(m, PoolWords), NEW t \in Cut(r, PageWords)
  PROVE  Good(t, g, Append(ps, [size |-> size, header |-> Address(r),
                                free |-> Nodes(Address(t), size)]), s)
<1> DEFINE nodes == Nodes(Address(t), size)
           pool == [size |-> size, header |-> Address(r), free |-> nodes]
           qs == Append(ps, pool)
           j == Len(ps) + 1
           hd == Extent(Address(r), PoolWords, 0)
           P == PartsOf(g, ps, s)
           Q == PartsAt(nodes, size, j)
<1>1. /\ m \in Arenas /\ HeadIn(m) /\ SoundIn(m, P) /\ Once(g, ps)
      /\ g \subseteq P /\ FreeIn(ps) \subseteq P /\ HeadersOf(ps) \subseteq P /\ RestOf(s) \subseteq P
      /\ g \subseteq Extents /\ ps \in Seq(Pools) /\ s \in Pages
      /\ OfPools(g, ps) /\ RestFree(g, ps, s)
  BY OnlyParts
<1> HIDE DEF P
<1>2. /\ r \in Arenas /\ HeadIn(r) /\ Address(r) \in Addresses
      /\ SoundIn(r, P \cup {hd}) /\ hd \notin P
  <2>1. PoolWords \in Nat \ {0} /\ \A granted \in Granted : PoolWords <= granted
    BY Sizes
  <2>2. QED
    BY <1>1, <2>1, CutSound
<1> HIDE DEF hd
<1>3. /\ t \in Arenas /\ HeadIn(t)
      /\ nodes \in Seq(Addresses) /\ nodes # <<>> /\ OneToOne(nodes)
      /\ SoundIn(t, (P \cup {hd}) \cup Q)
      /\ \A q \in P \cup {hd} : \A i \in DOMAIN nodes : q.at # nodes[i]
  BY <1>2, PageOfNodes
<1> HIDE DEF nodes
<1>4. pool \in Pools /\ pool.size = size /\ pool.header = Address(r) /\ pool.free = nodes
  BY <1>2, <1>3 DEF Pools
<1> HIDE DEF pool
<1>5. /\ qs \in Seq(Pools) /\ DOMAIN qs = DOMAIN ps \cup {j} /\ j \in Nat /\ j # 0
      /\ qs[j] = pool /\ j \notin DOMAIN ps
      /\ \A k \in DOMAIN ps : qs[k] = ps[k]
  BY <1>1, <1>4, Joined
<1> HIDE DEF qs, j
<1>6. HeadersOf(qs) \subseteq HeadersOf(ps) \cup {hd}
  <2> SUFFICES ASSUME NEW k \in DOMAIN qs
               PROVE  Extent(qs[k].header, PoolWords, 0) \in HeadersOf(ps) \cup {hd}
    BY DEF HeadersOf
  <2>1. CASE k = j
    BY <1>4, <1>5, <2>1 DEF hd
  <2>2. CASE k # j
    BY <1>5, <2>2 DEF HeadersOf
  <2>3. QED
    BY <2>1, <2>2
<1>7. FreeIn(qs) \subseteq FreeIn(ps) \cup Q
  <2> SUFFICES ASSUME NEW k \in DOMAIN qs, NEW p \in DOMAIN qs[k].free
               PROVE  Extent(qs[k].free[p], qs[k].size, k) \in FreeIn(ps) \cup Q
    BY DEF FreeIn
  <2>1. CASE k = j
    BY <1>4, <1>5, <2>1 DEF PartsAt
  <2>2. CASE k # j
    BY <1>5, <2>2, FreeAt
  <2>3. QED
    BY <2>1, <2>2
<1> HIDE DEF Q
<1>8. SoundIn(t, PartsOf(g, qs, s))
  <2>1. PartsOf(g, qs, s) \subseteq (P \cup {hd}) \cup Q
    BY <1>6, <1>7 DEF PartsOf, P
  <2>2. QED
    BY <1>3, <2>1, FewerSound
<1>9. Once(g, qs)
  <2> SUFFICES ASSUME NEW k \in DOMAIN qs
               PROVE  /\ OneToOne(qs[k].free)
                      /\ \A p \in DOMAIN qs[k].free : \A q \in g : q.at # qs[k].free[p]
    BY DEF Once, OneToOne
  <2>1. CASE k = j
    BY <1>1, <1>3, <1>4, <1>5, <2>1
  <2>2. CASE k # j
    BY <1>1, <1>5, <2>2 DEF Once, OneToOne
  <2>3. QED
    BY <2>1, <2>2
<1>10. OfPools(g, qs)
  BY <1>1, <1>5, SameOfPools
<1>11. RestFree(g, qs, s)
  BY <1>1, <1>2, <1>6 DEF RestFree
<1>12. Typed(g, qs, s)
  BY <1>1, <1>5 DEF Typed
<1>13. QED
  BY <1>3, <1>8, <1>9, <1>10, <1>11, <1>12 DEF Good, qs, pool, nodes

\* A string copied to where the string page is still free.
LEMMA CopySound ==
  ASSUME NEW m \in Arenas, NEW P, NEW s \in Pages, NEW len \in Strings, len <= s.left,
         SoundIn(m, P \cup {Extent(s.at, s.left, 0)}), Extent(s.at, s.left, 0) \notin P
  PROVE  LET e == Extent(s.at, len, 0)
         IN  /\ e \in Extents /\ Packed(s, len) \in Pages
             /\ SoundIn(m, P \cup ({e} \cup RestOf(Packed(s, len))))
             /\ e \notin P /\ e \notin RestOf(Packed(s, len))
             /\ RestOf(Packed(s, len)) \cap P = {}
<1> DEFINE e == Extent(s.at, len, 0)
           t == Packed(s, len)
           d == Extent(t.at, t.left, 0)
           R == Extent(s.at, s.left, 0)
           Q == {e} \cup RestOf(t)
<1>1. /\ s.at \in Addresses /\ s.left \in 0 .. PageWords /\ s.left \in Int /\ PageWords \in Int
      /\ len \in Int /\ len >= 1
  BY Sizes DEF Pages
<1>2. s.at[1] \in Nat /\ s.at[2] \in Int
  BY <1>1, Places
<1>3. /\ t.at = <<s.at[1], s.at[2] + len>> /\ t.left = s.left - len
      /\ t = [at |-> t.at, left |-> t.left]
  BY DEF Packed
<1>4. t.at \in Addresses /\ t.left \in 0 .. PageWords /\ t.left \in Int
  BY <1>1, <1>2, <1>3, Places
<1>5. t \in Pages
  BY <1>3, <1>4 DEF Pages
<1>6. e \in Extents /\ e.at = s.at /\ e.size = len /\ R.at = s.at /\ R.size = s.left
  BY <1>1, Typing, Fields
<1>7. d.at = t.at /\ d.size = t.left /\ RestOf(t) = {q \in {d} : q.size > 0}
  BY Fields DEF RestOf
<1> HIDE DEF e, t, d, R
<1>8. /\ First(e) = s.at[2] /\ Last(e) = s.at[2] + len - 1
      /\ First(R) = s.at[2] /\ Last(R) = s.at[2] + s.left - 1
      /\ First(d) = s.at[2] + len /\ Last(d) = s.at[2] + s.left - 1
  BY <1>1, <1>2, <1>3, <1>6, <1>7 DEF First, Last
<1>9. Sized(e) /\ e.at[1] = R.at[1] /\ First(R) <= First(e) /\ Last(e) <= Last(R)
  BY <1>1, <1>2, <1>6, <1>8 DEF Sized
<1>10. t.left > 0 => Sized(d) /\ d.at[1] = R.at[1] /\ First(R) <= First(d) /\ Last(d) <= Last(R)
  BY <1>1, <1>2, <1>3, <1>4, <1>6, <1>7, <1>8 DEF Sized
<1>11. e # d /\ Apart(e, d) /\ Apart(d, e) /\ Apart(e, e) /\ Apart(d, d)
  BY <1>1, <1>2, <1>8 DEF Apart
<1>12. \A q \in Q : q = e \/ (q = d /\ t.left > 0)
  BY <1>7
<1>13. e \in Q /\ RestOf(t) \subseteq Q /\ e \notin RestOf(t)
  BY <1>7, <1>11
<1>14. /\ Len(m.blocks) \in Nat /\ \A i \in 1 .. Len(m.blocks) : m.blocks[i] \in Int
       /\ m.head \in Int
  <2>1. m.blocks \in Seq(PageWords .. BlockWords) /\ m.head \in Int
    BY DEF Arenas
  <2>2. QED
    BY <2>1, Sizes
<1>15. SoundIn(m, P \cup {R}) /\ R \notin P
  BY DEF R
<1> HIDE DEF Q
<1>16. \A q \in Q : Sized(q) /\ q.at[1] = R.at[1] /\ First(R) <= First(q) /\ Last(q) <= Last(R)
  BY <1>9, <1>10, <1>12
<1>17. \A p, q \in Q : Apart(p, q)
  BY <1>11, <1>12
<1>18. SoundIn(m, P \cup Q) /\ \A q \in Q : q \notin P
  BY <1>14, <1>15, <1>16, <1>17, SplitSound
<1>19. e \notin P /\ RestOf(t) \cap P = {}
  BY <1>13, <1>18
<1>20. QED
  BY <1>5, <1>6, <1>13, <1>18, <1>19 DEF e, t, Q

LEMMA CopyGood ==
  ASSUME NEW m \in Arenas, HeadIn(m), NEW g, g \subseteq Extents, NEW ps \in Seq(Pools),
         OfPools(g, ps), Once(g, ps), NEW s \in Pages, NEW len \in Strings, len <= s.left,
         SoundIn(m, (g \cup FreeIn(ps) \cup HeadersOf(ps)) \cup {Extent(s.at, s.left, 0)}),
         Extent(s.at, s.left, 0) \notin g \cup FreeIn(ps) \cup HeadersOf(ps)
  PROVE  Good(m, g \cup {Extent(s.at, len, 0)}, ps, Packed(s, len))
<1> DEFINE e == Extent(s.at, len, 0)
           t == Packed(s, len)
           P == g \cup FreeIn(ps) \cup HeadersOf(ps)
<1>1. /\ e \in Extents /\ t \in Pages /\ SoundIn(m, P \cup ({e} \cup RestOf(t)))
      /\ e \notin P /\ e \notin RestOf(t) /\ RestOf(t) \cap P = {} /\ e.from = 0
  <2>1. SoundIn(m, P \cup {Extent(s.at, s.left, 0)}) /\ Extent(s.at, s.left, 0) \notin P
    OBVIOUS
  <2> HIDE DEF P
  <2>2. /\ e \in Extents /\ t \in Pages /\ SoundIn(m, P \cup ({e} \cup RestOf(t)))
        /\ e \notin P /\ e \notin RestOf(t) /\ RestOf(t) \cap P = {}
    BY <2>1, CopySound
  <2>3. QED
    BY <2>2, Fields
<1> HIDE DEF e, t
<1>2. SoundIn(m, PartsOf(g \cup {e}, ps, t))
  <2>1. PartsOf(g \cup {e}, ps, t) = P \cup ({e} \cup RestOf(t))
    BY DEF PartsOf
  <2>2. QED
    BY <1>1, <2>1
<1>3. Once(g \cup {e}, ps)
  <2>1. FreeIn(ps) \subseteq P \cup ({e} \cup RestOf(t)) /\ e \in P \cup ({e} \cup RestOf(t))
        /\ e \notin FreeIn(ps)
    BY <1>1
  <2>2. \A j \in DOMAIN ps : \A p \in DOMAIN ps[j].free : e.at # ps[j].free[p]
    BY <1>1, <2>1, NotFree
  <2>3. QED
    BY <2>2 DEF Once
<1>4. OfPools(g \cup {e}, ps)
  BY <1>1 DEF OfPools
<1>5. RestFree(g \cup {e}, ps, t) /\ Typed(g \cup {e}, ps, t)
  BY <1>1 DEF RestFree, Typed
<1>6. QED
  BY <1>2, <1>3, <1>4, <1>5 DEF Good, e, t

LEMMA CopyHereGood ==
  ASSUME NEW m, NEW g, NEW ps, NEW s, Good(m, g, ps, s), NEW len \in Strings, len <= s.left
  PROVE  Good(m, g \cup {Extent(s.at, len, 0)}, ps, Packed(s, len))
<1> DEFINE R == Extent(s.at, s.left, 0)
           P == g \cup FreeIn(ps) \cup HeadersOf(ps)
<1>1. len >= 1 /\ len \in Int /\ s.left \in Int /\ s \in Pages /\ R.size = s.left /\ R.from = 0
  BY OnlyParts, Sizes, Fields DEF Pages
<1>2. RestOf(s) = {R}
  BY <1>1 DEF RestOf
<1>3. R \notin g \cup HeadersOf(ps)
  BY <1>2, OnlyParts DEF RestFree
<1>4. R \notin FreeIn(ps)
  BY <1>1, OnlyParts, FreeOnes
<1>5. SoundIn(m, P \cup {R})
  BY <1>2, OnlyParts DEF PartsOf
<1>6. QED
  BY <1>1, <1>3, <1>4, <1>5, OnlyParts, CopyGood

LEMMA CopyPageGood ==
  ASSUME NEW m, NEW g, NEW ps, NEW s, Good(m, g, ps, s), NEW len \in Strings, len <= PageWords,
         NEW r \in Cut(m, PageWords)
  PROVE  Good(r, g \cup {Extent(Address(r), len, 0)}, ps,
              Packed([at |-> Address(r), left |-> PageWords], len))
<1> DEFINE R == Extent(Address(r), PageWords, 0)
           P == g \cup FreeIn(ps) \cup HeadersOf(ps)
           t == [at |-> Address(r), left |-> PageWords]
<1>1. /\ r \in Arenas /\ HeadIn(r) /\ Address(r) \in Addresses
      /\ SoundIn(r, PartsOf(g, ps, s) \cup {R}) /\ R \notin PartsOf(g, ps, s)
  <2>1. PageWords \in Nat \ {0} /\ \A granted \in Granted : PageWords <= granted
    BY Sizes
  <2>2. QED
    BY <2>1, OnlyParts, CutSound
<1>2. t \in Pages /\ t.at = Address(r) /\ t.left = PageWords /\ R = Extent(t.at, t.left, 0)
  BY <1>1, Sizes DEF Pages
<1> HIDE DEF t, R
<1>3. P \subseteq PartsOf(g, ps, s)
  BY DEF PartsOf
<1>4. SoundIn(r, P \cup {R}) /\ R \notin P
  <2>1. P \cup {R} \subseteq PartsOf(g, ps, s) \cup {R}
    BY <1>3
  <2>2. QED
    BY <1>1, <1>3, <2>1, FewerSound
<1>5. Good(r, g \cup {Extent(t.at, len, 0)}, ps, Packed(t, len))
  <2>1. g \subseteq Extents /\ ps \in Seq(Pools) /\ OfPools(g, ps) /\ Once(g, ps)
    BY OnlyParts
  <2>2. QED
    BY <1>1, <1>2, <1>4, <2>1, CopyGood
<1>6. QED
  BY <1>2, <1>5 DEF t

(***************************************************************************)
(* Types: they hold whatever clients ask for.                              *)
(***************************************************************************)
LEMMA CutTyped ==
  ASSUME NEW m \in Arenas, m.head <= BlockWords, NEW size \in Nat, NEW r \in Cut(m, size)
  PROVE  /\ r.blocks \in Seq(PageWords .. BlockWords) /\ r.head \in Int /\ r.head <= BlockWords
         /\ r \in Arenas /\ Address(r) \in Addresses
<1>1. m.blocks \in Seq(PageWords .. BlockWords) /\ m.head \in Int /\ BlockWords \in Int
  BY Sizes DEF Arenas
<1>2. CASE m.blocks # <<>> /\ Suffices(m, size)
  <2>1. r = [m EXCEPT !.head = m.head - size]
    BY <1>2 DEF Cut
  <2>2. r.blocks = m.blocks /\ r.head = m.head - size /\ r \in Arenas
    BY <1>1, <2>1 DEF Arenas
  <2>3. Len(r.blocks) \in Nat /\ r.head \in Int
    BY <1>1, <2>2
  <2>4. QED
    BY <1>1, <2>2, <2>3, Places DEF Address
<1>3. CASE ~(m.blocks # <<>> /\ Suffices(m, size))
  <2>1. PICK b \in Granted : r = [blocks |-> Append(m.blocks, b), head |-> b - size]
    BY <1>3 DEF Cut
  <2>2. b \in PageWords .. BlockWords
    BY Sizes
  <2>3. /\ r.blocks = Append(m.blocks, b) /\ r.head = b - size
        /\ r.blocks \in Seq(PageWords .. BlockWords) /\ r.head \in Int /\ r.head <= BlockWords
    BY <1>1, <2>1, <2>2, Sizes
  <2>4. r \in Arenas
    BY <2>1, <2>3 DEF Arenas
  <2>5. Len(r.blocks) \in Nat
    BY <2>3
  <2>6. QED
    BY <2>3, <2>4, <2>5, Places DEF Address
<1>4. QED
  BY <1>2, <1>3

LEMMA NodesTyped ==
  ASSUME NEW page \in Addresses, NEW size \in NodeSizes
  PROVE  LET nodes == Nodes(page, size)
         IN  nodes \in Seq(Addresses) /\ nodes # <<>> /\ Head(nodes) \in Addresses
             /\ Tail(nodes) \in Seq(Addresses)
<1> DEFINE nodes == Nodes(page, size)
<1>1. nodes \in Seq(Addresses) /\ Len(nodes) \in Int /\ Len(nodes) >= 1
  BY NodesApart
<1> HIDE DEF nodes
<1>2. nodes \in Seq(Addresses) /\ nodes # <<>> /\ Head(nodes) \in Addresses
      /\ Tail(nodes) \in Seq(Addresses)
  BY <1>1
<1>3. QED
  BY <1>2 DEF nodes

LEMMA PackedTyped ==
  ASSUME NEW s \in Pages, NEW len \in Strings, len <= s.left
  PROVE  Packed(s, len) \in Pages /\ Extent(s.at, len, 0) \in Extents
<1>1. s.at \in Addresses /\ s.left \in Int /\ s.left <= PageWords /\ PageWords \in Int /\ len \in Int /\ len >= 1
  BY Sizes DEF Pages
<1>2. s.at[1] \in Nat /\ s.at[2] \in Int
  BY <1>1, Places
<1>3. <<s.at[1], s.at[2] + len>> \in Addresses /\ s.left - len \in 0 .. PageWords
  BY <1>1, <1>2, Places
<1>4. QED
  BY <1>1, <1>3, Typing DEF Packed, Pages

LEMMA ArenaTyped ==
  ASSUME TypeOK
  PROVE  /\ Arena \in Arenas /\ Arena.blocks = blocks /\ Arena.head = head /\ Arena.head <= BlockWords
         /\ str \in Pages /\ pools \in Seq(Pools) /\ given \subseteq Extents
BY DEF TypeOK, Arena, Arenas, Pages

THEOREM TypeCorrect == Spec => []TypeOK
<1>1. Init => TypeOK
  <2> SUFFICES ASSUME Init
               PROVE  TypeOK
    OBVIOUS
  <2>1. NoString \in Pages
    BY Places, Sizes DEF NoString, Pages
  <2>2. <<>> \in Seq(PageWords .. BlockWords) /\ <<>> \in Seq(Pools) /\ {} \subseteq Extents
    OBVIOUS
  <2>3. 0 \in Int /\ 0 <= BlockWords
    BY Sizes
  <2>4. QED
    BY <2>1, <2>2, <2>3 DEF Init, TypeOK, Pages
<1>2. TypeOK /\ [Next]_vars => TypeOK'
  <2> SUFFICES ASSUME TypeOK, [Next]_vars
               PROVE  TypeOK'
    OBVIOUS
  <2>1. ASSUME NEW m \in Arenas, NEW size \in Nat, m.head <= BlockWords, NEW r \in Cut(m, size), Becomes(r)
        PROVE  /\ blocks' \in Seq(PageWords .. BlockWords) /\ head' \in Int /\ head' <= BlockWords
               /\ Address(r) \in Addresses
    BY <2>1, CutTyped DEF Becomes
  <2>2. PageWords \in Nat /\ PoolWords \in Nat
    BY Sizes
  <2>3. CASE UNCHANGED vars
    BY <2>3 DEF vars, TypeOK
  <2>4. CASE DeallocateAll
    BY <2>4, Sizes DEF DeallocateAll, TypeOK, Extents
  <2>5. CASE Allocation /\ UNCHANGED ended
    <3>1. ASSUME NEW size \in Requests, AllocateGeneral(size)
          PROVE  TypeOK'
      <4>1. PICK m \in Cut(Arena, size) :
              Becomes(m) /\ given' = given \cup {Extent(Address(m), size, 0)}
        BY <3>1 DEF AllocateGeneral
      <4>2. size \in Nat
        BY Sizes
      <4>3. Extent(Address(m), size, 0) \in Extents
        BY <2>1, <4>1, <4>2, ArenaTyped, Typing
      <4>4. QED
        BY <2>1, <2>5, <3>1, <4>1, <4>2, <4>3, ArenaTyped DEF AllocateGeneral, TypeOK
    <3>2. ASSUME NEW size \in NodeSizes, NewPool(size)
          PROVE  TypeOK'
      <4>1. PICK m \in Cut(Arena, PoolWords) : \E t \in Cut(m, PageWords) :
              /\ Becomes(t)
              /\ pools' = Append(pools, [size |-> size, header |-> Address(m),
                                         free |-> Nodes(Address(t), size)])
        BY <3>2 DEF NewPool
      <4>2. PICK t \in Cut(m, PageWords) :
              /\ Becomes(t)
              /\ pools' = Append(pools, [size |-> size, header |-> Address(m),
                                         free |-> Nodes(Address(t), size)])
        BY <4>1
      <4>3. m \in Arenas /\ m.head <= BlockWords /\ Address(m) \in Addresses
        BY <2>2, <4>1, ArenaTyped, CutTyped
      <4>4. /\ blocks' \in Seq(PageWords .. BlockWords) /\ head' \in Int /\ head' <= BlockWords
            /\ Address(t) \in Addresses
        BY <2>1, <2>2, <4>2, <4>3
      <4>5. [size |-> size, header |-> Address(m), free |-> Nodes(Address(t), size)] \in Pools
        BY <4>3, <4>4, NodesTyped DEF Pools
      <4>6. pools' \in Seq(Pools)
        BY <4>2, <4>5, ArenaTyped
      <4>7. QED
        BY <2>5, <3>2, <4>4, <4>6 DEF NewPool, TypeOK
    <3>3. ASSUME NEW j \in DOMAIN pools, AllocateFrom(j)
          PROVE  TypeOK'
      <4>1. /\ pools \in Seq(Pools) /\ j \in Nat /\ pools[j].size \in NodeSizes
            /\ pools[j].free \in Seq(Addresses) /\ pools[j].free # <<>>
        BY <3>3, ArenaTyped, PoolsTyped DEF AllocateFrom
      <4>2. Head(pools[j].free) \in Addresses /\ Tail(pools[j].free) \in Seq(Addresses)
        BY <4>1
      <4>3. pools' = WithFree(pools, j, Tail(pools[j].free))
        BY <3>3 DEF AllocateFrom, WithFree
      <4>4. pools' \in Seq(Pools)
        BY <4>1, <4>2, <4>3, NewFree
      <4>5. Extent(Head(pools[j].free), pools[j].size, j) \in Extents
        BY <4>1, <4>2, Typing
      <4>6. QED
        BY <2>5, <3>3, <4>4, <4>5 DEF AllocateFrom, TypeOK
    <3>4. ASSUME NEW j \in DOMAIN pools, AllocateFromNewPage(j)
          PROVE  TypeOK'
      <4>1. PICK m \in Cut(Arena, PageWords) :
              /\ Becomes(m)
              /\ given' = given \cup {Extent(Head(Nodes(Address(m), pools[j].size)), pools[j].size, j)}
              /\ pools' = [pools EXCEPT ![j].free = Tail(Nodes(Address(m), pools[j].size))]
        BY <3>4 DEF AllocateFromNewPage
      <4>2. /\ blocks' \in Seq(PageWords .. BlockWords) /\ head' \in Int /\ head' <= BlockWords
            /\ Address(m) \in Addresses
        BY <2>1, <2>2, <4>1, ArenaTyped
      <4>3. pools \in Seq(Pools) /\ j \in Nat /\ pools[j].size \in NodeSizes
        BY ArenaTyped, PoolsTyped
      <4>4. /\ Head(Nodes(Address(m), pools[j].size)) \in Addresses
            /\ Tail(Nodes(Address(m), pools[j].size)) \in Seq(Addresses)
        BY <4>2, <4>3, NodesTyped
      <4>5. pools' = WithFree(pools, j, Tail(Nodes(Address(m), pools[j].size)))
        BY <4>1 DEF WithFree
      <4>6. pools' \in Seq(Pools)
        BY <4>3, <4>4, <4>5, NewFree
      <4>7. Extent(Head(Nodes(Address(m), pools[j].size)), pools[j].size, j) \in Extents
        BY <4>3, <4>4, Typing
      <4>8. QED
        BY <2>5, <3>4, <4>1, <4>2, <4>6, <4>7 DEF AllocateFromNewPage, TypeOK
    <3>5. ASSUME NEW j \in DOMAIN pools, NEW r \in given, DeallocateTo(j, r)
          PROVE  TypeOK'
      <4>1. pools \in Seq(Pools) /\ pools[j].free \in Seq(Addresses) /\ r.at \in Addresses
        BY ArenaTyped, PoolsTyped DEF Extents
      <4>2. <<r.at>> \o pools[j].free \in Seq(Addresses)
        BY <4>1
      <4>3. pools' = WithFree(pools, j, <<r.at>> \o pools[j].free)
        BY <3>5 DEF DeallocateTo, WithFree
      <4>4. pools' \in Seq(Pools)
        BY <4>1, <4>2, <4>3, NewFree
      <4>5. QED
        BY <2>5, <3>5, <4>4 DEF DeallocateTo, TypeOK
    <3>6. ASSUME NEW len \in Strings, Strdup(len)
          PROVE  TypeOK'
      <4>1. str \in Pages /\ len <= str.left
        BY <3>6, ArenaTyped, Sizes DEF Strdup, Pages
      <4>2. str' \in Pages /\ given' \subseteq Extents
        BY <3>6, <4>1, ArenaTyped, PackedTyped DEF Strdup, CopyOf
      <4>3. QED
        BY <2>5, <3>6, <4>2 DEF Strdup, TypeOK, Pages
    <3>7. ASSUME NEW len \in Strings, StrdupNewPage(len)
          PROVE  TypeOK'
      <4>1. PICK m \in Cut(Arena, PageWords) :
              Becomes(m) /\ CopyOf([at |-> Address(m), left |-> PageWords], len)
        BY <3>7 DEF StrdupNewPage
      <4>2. /\ blocks' \in Seq(PageWords .. BlockWords) /\ head' \in Int /\ head' <= BlockWords
            /\ Address(m) \in Addresses
        BY <2>1, <2>2, <4>1, ArenaTyped
      <4>3. /\ [at |-> Address(m), left |-> PageWords] \in Pages
            /\ len <= [at |-> Address(m), left |-> PageWords].left
        BY <2>2, <3>7, <4>2 DEF Pages, StrdupNewPage
      <4>4. str' \in Pages /\ given' \subseteq Extents
        BY <4>1, <4>3, ArenaTyped, PackedTyped DEF CopyOf
      <4>5. QED
        BY <2>5, <3>7, <4>2, <4>4 DEF StrdupNewPage, TypeOK, Pages
    <3>8. QED
      BY <2>5, <3>1, <3>2, <3>3, <3>4, <3>5, <3>6, <3>7 DEF Allocation
  <2>6. QED
    BY <2>3, <2>4, <2>5 DEF Next
<1>3. QED
  BY <1>1, <1>2, PTL DEF Spec

(***************************************************************************)
(* Parts, when every request fits a block: as long as the program has not  *)
(* ended, the state is good.                                               *)
(***************************************************************************)
LEMMA GoodOf ==
  ASSUME IInv, ~ended
  PROVE  Good(Arena, given, pools, str)
<1>1. /\ TypeOK /\ PartsSound /\ NodesFreeOnce /\ head >= 0
      /\ blocks # <<>> => head <= blocks[Len(blocks)]
      /\ Rest \cap (given \cup Headers) = {}
  BY DEF IInv
<1>2. OfPools(given, pools)
  BY DEF IInv, OfPools
<1>3. FreeNodes = FreeIn(pools) /\ Headers = HeadersOf(pools) /\ Rest = RestOf(str)
      /\ Parts = PartsOf(given, pools, str)
  BY DEF FreeNodes, FreeIn, Headers, HeadersOf, Rest, RestOf, Parts, PartsOf
<1>4. ASSUME NEW r \in Parts
      PROVE  Sized(r)
  <2>1. CASE r \in given
    BY <2>1, ArenaTyped, <1>1, Sizes DEF Extents, Sized
  <2>2. CASE r \in FreeIn(pools)
    <3>1. /\ r.from \in DOMAIN pools /\ r.size = pools[r.from].size
          /\ \E p \in DOMAIN pools[r.from].free : r.at = pools[r.from].free[p]
      BY <1>1, <2>2, ArenaTyped, FreeOnes
    <3>2. pools[r.from].size \in NodeSizes /\ pools[r.from].free \in Seq(Addresses)
      BY <1>1, <3>1, ArenaTyped, PoolsTyped
    <3>3. r.at \in Addresses
      BY <3>1, <3>2
    <3>4. QED
      BY <3>1, <3>2, <3>3, Sizes DEF Sized
  <2>3. CASE r \in HeadersOf(pools)
    <3>1. PICK j \in DOMAIN pools : r = Extent(pools[j].header, PoolWords, 0)
      BY <2>3 DEF HeadersOf
    <3>2. pools[j].header \in Addresses
      BY <1>1, ArenaTyped, PoolsTyped
    <3>3. QED
      BY <3>1, <3>2, Sizes, Fields DEF Sized
  <2>4. CASE r \in RestOf(str)
    <3>1. r = Extent(str.at, str.left, 0) /\ r.size > 0
      BY <2>4 DEF RestOf
    <3>2. str.at \in Addresses /\ str.left \in Nat
      BY <1>1, ArenaTyped, Sizes DEF Pages
    <3>3. QED
      BY <3>1, <3>2, Fields DEF Sized
  <2>5. QED
    BY <1>3, <2>1, <2>2, <2>3, <2>4 DEF PartsOf
<1>5. Arena.blocks = blocks /\ Arena.head = head /\ DOMAIN blocks = 1 .. Len(blocks)
  BY <1>1, ArenaTyped DEF TypeOK
<1>6. SoundIn(Arena, Parts)
  BY <1>1, <1>4, <1>5 DEF PartsSound, SoundIn, Fits, Apart
<1>7. Once(given, pools)
  BY <1>1 DEF NodesFreeOnce, Once
<1>8. QED
  BY <1>1, <1>2, <1>3, <1>5, <1>6, <1>7, ArenaTyped DEF Good, HeadIn, Typed, RestFree

LEMMA GoodTo ==
  ASSUME NEW m, TypeOK', m.blocks = blocks', m.head = head', Good(m, given', pools', str')
  PROVE  IInv'
<1>1. /\ HeadIn(m) /\ SoundIn(m, PartsOf(given', pools', str')) /\ Once(given', pools')
      /\ OfPools(given', pools') /\ RestFree(given', pools', str')
  BY DEF Good
<1>2. Headers' = HeadersOf(pools') /\ Rest' = RestOf(str') /\ Parts' = PartsOf(given', pools', str')
  BY DEF FreeNodes, FreeIn, Headers, HeadersOf, Rest, RestOf, Parts, PartsOf
<1>3. DOMAIN blocks' = 1 .. Len(blocks')
  BY DEF TypeOK
<1>4. PartsSound'
  BY <1>1, <1>2, <1>3 DEF PartsSound, SoundIn, Fits, Apart
<1>5. NodesFreeOnce'
  BY <1>1 DEF NodesFreeOnce, Once
<1>6. head' >= 0 /\ (blocks' # <<>> => head' <= blocks'[Len(blocks')])
  BY <1>1 DEF HeadIn
<1>7. Rest' \cap (given' \cup Headers') = {}
  BY <1>1, <1>2 DEF RestFree
<1>8. \A r \in given' : r.from # 0 => r.from \in DOMAIN pools' /\ r.size = pools'[r.from].size
  BY <1>1 DEF OfPools
<1>9. QED
  BY <1>4, <1>5, <1>6, <1>7, <1>8 DEF IInv

LEMMA StepGood ==
  ASSUME RequestsFit, Good(Arena, given, pools, str), TypeOK, Allocation
  PROVE  \E m \in Arenas : /\ m.blocks = blocks' /\ m.head = head'
                           /\ Good(m, given', pools', str')
<1>1. /\ Arena \in Arenas /\ Arena.blocks = blocks /\ Arena.head = head
  BY ArenaTyped
<1> DEFINE Goal == \E m \in Arenas : /\ m.blocks = blocks' /\ m.head = head'
                                     /\ Good(m, given', pools', str')
<1>2. ASSUME NEW m, Good(m, given', pools', str'), m.blocks = blocks', m.head = head'
      PROVE  Goal
  BY <1>2 DEF Good
<1> HIDE DEF Goal
<1>3. ASSUME UNCHANGED <<blocks, head>>
      PROVE  Arena.blocks = blocks' /\ Arena.head = head'
  BY <1>1, <1>3
<1>4. ASSUME NEW size \in Requests, AllocateGeneral(size)
      PROVE  Goal
  <2>1. PICK m \in Cut(Arena, size) :
          Becomes(m) /\ given' = given \cup {Extent(Address(m), size, 0)}
    BY <1>4 DEF AllocateGeneral
  <2>2. Good(m, given', pools', str')
    BY <1>4, <2>1, GeneralGood DEF AllocateGeneral
  <2>3. QED
    BY <1>2, <2>1, <2>2 DEF Becomes
<1>5. ASSUME NEW size \in NodeSizes, NewPool(size)
      PROVE  Goal
  <2>1. PICK m \in Cut(Arena, PoolWords) : \E t \in Cut(m, PageWords) :
          /\ Becomes(t)
          /\ pools' = Append(pools, [size |-> size, header |-> Address(m),
                                     free |-> Nodes(Address(t), size)])
    BY <1>5 DEF NewPool
  <2>2. PICK t \in Cut(m, PageWords) :
          /\ Becomes(t)
          /\ pools' = Append(pools, [size |-> size, header |-> Address(m),
                                     free |-> Nodes(Address(t), size)])
    BY <2>1
  <2>3. Good(t, given', pools', str')
    BY <1>5, <2>2, PoolGood DEF NewPool
  <2>4. QED
    BY <1>2, <2>2, <2>3 DEF Becomes
<1>6. ASSUME NEW j \in DOMAIN pools, AllocateFrom(j)
      PROVE  Goal
  <2>1. /\ given' = given \cup {Extent(Head(pools[j].free), pools[j].size, j)}
        /\ pools' = WithFree(pools, j, Tail(pools[j].free)) /\ pools[j].free # <<>>
        /\ UNCHANGED <<blocks, head, str>>
    BY <1>6 DEF AllocateFrom, WithFree
  <2>2. Good(Arena, given', pools', str')
    BY <2>1, FromGood
  <2>3. QED
    BY <1>2, <1>3, <2>1, <2>2
<1>7. ASSUME NEW j \in DOMAIN pools, AllocateFromNewPage(j)
      PROVE  Goal
  <2>1. PICK m \in Cut(Arena, PageWords) :
          /\ Becomes(m)
          /\ given' = given \cup {Extent(Head(Nodes(Address(m), pools[j].size)), pools[j].size, j)}
          /\ pools' = WithFree(pools, j, Tail(Nodes(Address(m), pools[j].size)))
    BY <1>7 DEF AllocateFromNewPage, WithFree
  <2>2. Good(m, given', pools', str')
    BY <1>7, <2>1, FromNewPageGood DEF AllocateFromNewPage
  <2>3. QED
    BY <1>2, <2>1, <2>2 DEF Becomes
<1>8. ASSUME NEW j \in DOMAIN pools, NEW r \in given, DeallocateTo(j, r)
      PROVE  Goal
  <2>1. /\ r.from = j /\ given' = given \ {r}
        /\ pools' = WithFree(pools, j, <<r.at>> \o pools[j].free)
        /\ UNCHANGED <<blocks, head, str>>
    BY <1>8 DEF DeallocateTo, WithFree
  <2>2. Good(Arena, given', pools', str')
    BY <2>1, ToGood
  <2>3. QED
    BY <1>2, <1>3, <2>1, <2>2
<1>9. ASSUME NEW len \in Strings, Strdup(len)
      PROVE  Goal
  <2>1. /\ str' = Packed(str, len) /\ given' = given \cup {Extent(str.at, len, 0)}
        /\ UNCHANGED <<blocks, head, pools>>
    BY <1>9 DEF Strdup, CopyOf
  <2>2. len <= str.left
    BY <1>9, ArenaTyped, Sizes DEF Strdup, Pages
  <2>3. Good(Arena, given', pools', str')
    BY <2>1, <2>2, CopyHereGood
  <2>4. QED
    BY <1>2, <1>3, <2>1, <2>3
<1>10. ASSUME NEW len \in Strings, StrdupNewPage(len)
       PROVE  Goal
  <2>1. PICK m \in Cut(Arena, PageWords) :
          Becomes(m) /\ CopyOf([at |-> Address(m), left |-> PageWords], len)
    BY <1>10 DEF StrdupNewPage
  <2>2. /\ str' = Packed([at |-> Address(m), left |-> PageWords], len)
        /\ given' = given \cup {Extent(Address(m), len, 0)} /\ UNCHANGED pools /\ len <= PageWords
    BY <1>10, <2>1 DEF CopyOf, StrdupNewPage
  <2>3. Good(m, given', pools', str')
    BY <2>2, CopyPageGood
  <2>4. QED
    BY <1>2, <2>1, <2>3 DEF Becomes
<1>11. Goal
  BY <1>4, <1>5, <1>6, <1>7, <1>8, <1>9, <1>10 DEF Allocation
<1>12. QED
  BY <1>11 DEF Goal

(***************************************************************************)
(* The hypothesis of the theorems.  It holds of the allocator whenever     *)
(* malloc () grants the block of _H_AST_BLOCK_SIZE_ that it is asked for,  *)
(* which is 256 pages; and whatever malloc () does, when no request is     *)
(* larger than a page.                                                     *)
(***************************************************************************)
LEMMA FitWhenGranted ==
  ASSUME ~MallocMayFail, BlockWords >= 4 * PageWords
  PROVE  RequestsFit
BY AstMemoryAssumption DEF AstMemoryAssumption, RequestsFit, Granted

LEMMA FitInAPage ==
  ASSUME Requests \subseteq 1 .. PageWords
  PROVE  RequestsFit
BY AstMemoryAssumption DEF AstMemoryAssumption, RequestsFit, Granted

\* IInv is inductive.
THEOREM Invariance ==
  ASSUME RequestsFit
  PROVE  Spec => []IInv
<1>1. Init /\ TypeOK => IInv
  <2> SUFFICES ASSUME Init, TypeOK
               PROVE  IInv
    OBVIOUS
  <2>1. blocks = <<>> /\ head = 0 /\ given = {} /\ pools = <<>> /\ str = NoString /\ DOMAIN pools = {}
    BY DEF Init
  <2>2. FreeNodes = {} /\ Headers = {} /\ Rest = {}
    BY <2>1, Fields DEF FreeNodes, Headers, Rest, NoString
  <2>3. Parts = {}
    BY <2>1, <2>2 DEF Parts
  <2>4. PartsSound /\ NodesFreeOnce
    BY <2>1, <2>3 DEF PartsSound, NodesFreeOnce
  <2>5. QED
    BY <2>1, <2>2, <2>4 DEF IInv
<1>2. IInv /\ TypeOK' /\ [Next]_vars => IInv'
  <2> SUFFICES ASSUME IInv, TypeOK', [Next]_vars
               PROVE  IInv'
    OBVIOUS
  <2>1. CASE UNCHANGED vars
    BY <2>1 DEF vars, IInv, PartsSound, NodesFreeOnce, Parts, FreeNodes, Headers, Rest
  <2>2. CASE ~ended /\ Allocation /\ UNCHANGED ended
    <3>1. Good(Arena, given, pools, str)
      BY <2>2, GoodOf
    <3>2. TypeOK
      BY DEF IInv
    <3>3. PICK m \in Arenas : /\ m.blocks = blocks' /\ m.head = head'
                              /\ Good(m, given', pools', str')
      BY <2>2, <3>1, <3>2, StepGood
    <3>4. QED
      BY <3>3, GoodTo
  <2>3. CASE DeallocateAll
    BY <2>3 DEF DeallocateAll, IInv, PartsSound, NodesFreeOnce
  <2>4. QED
    BY <2>1, <2>2, <2>3 DEF Next
<1>3. Spec => []TypeOK
  BY TypeCorrect
<1>4. QED
  BY <1>1, <1>2, <1>3, PTL DEF Spec

\* For every size of a block and a page, as long as no request is larger than the
\* smallest block malloc () may grant, no two parts share a word.
THEOREM PartsApart ==
  ASSUME RequestsFit
  PROVE  Spec => []PartsSound
<1>1. IInv => PartsSound
  BY DEF IInv
<1>2. QED
  BY <1>1, Invariance, PTL

\* The free lists hold a node once, and none that a client has.
THEOREM NodesOwnedOrFree ==
  ASSUME RequestsFit
  PROVE  Spec => []NodesFreeOnce
<1>1. IInv => NodesFreeOnce
  BY DEF IInv
<1>2. QED
  BY <1>1, Invariance, PTL
=============================================================================
