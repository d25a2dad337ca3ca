----------------------------- MODULE MCHalfEdge -----------------------------
(* The fronts remeshing starts from. *)
EXTENDS HalfEdge

Tetrahedron == << <<1, 2, 3>>, <<1, 3, 4>>, <<1, 4, 2>>, <<2, 4, 3>> >>

Octahedron == << <<1, 2, 3>>, <<1, 3, 4>>, <<1, 4, 5>>, <<1, 5, 2>>,
                 <<6, 3, 2>>, <<6, 4, 3>>, <<6, 5, 4>>, <<6, 2, 5>> >>

Upper(i) == 2 + (i % 5)
Lower(i) == 7 + (i % 5)
Icosahedron ==
  [i \in 1 .. 5   |-> <<1, Upper(i), Upper(i + 1)>>] \o
  [i \in 1 .. 5   |-> <<Upper(i), Lower(i), Upper(i + 1)>>] \o
  [i \in 1 .. 5   |-> <<Lower(i), Lower(i + 1), Upper(i + 1)>>] \o
  [i \in 1 .. 5   |-> <<12, Lower(i + 1), Lower(i)>>]

\* the front where the edge between a and b has the midpoint m
Divide(faces, a, b, m) ==
  LET To(f, x, y) == [i \in 1 .. 3 |-> IF f[i] = x THEN y ELSE f[i]]
  IN  FlattenSeq([i \in DOMAIN faces |->
        IF {a, b} \subseteq ToSet(faces[i]) THEN <<To(faces[i], a, m), To(faces[i], b, m)>>
                                           ELSE <<faces[i]>>])

\* two points over and under a ring of n points
Bipyramid(n) ==
  LET Ring(i) == 3 + (i % n)
  IN  [i \in 1 .. n |-> <<1, Ring(i), Ring(i + 1)>>] \o
      [i \in 1 .. n |-> <<2, Ring(i + 1), Ring(i)>>]

\* A waist is a triangle a, b, c of edges that no face fills: on either side of it lies
\* a ring of faces, out to x beside the edge from a to b, y beside b to c, w beside c
\* to a, and then another ring or a cap.
Between(a, b, c, x, y, w) ==
  << <<b, a, x>>, <<c, b, y>>, <<a, c, w>>, <<b, x, y>>, <<c, y, w>>, <<a, w, x>> >>

Cap(a, b, c, top) == << <<b, a, top>>, <<c, b, top>>, <<a, c, top>> >>

Shallow(a, b, c, n) == Between(a, b, c, n, n + 1, n + 2) \o Cap(n, n + 1, n + 2, n + 3)
Deep(a, b, c, n)  == Between(a, b, c, n, n + 1, n + 2) \o Shallow(n, n + 1, n + 2, n + 3)

Waist     == Shallow(1, 2, 3, 4) \o Shallow(2, 1, 3, 8)
LongWaist == Deep(1, 2, 3, 4) \o Deep(2, 1, 3, 11)

BothWays(edges) == edges \cup {<<e[2], e[1]>> : e \in edges}

\* the edges that shrink: 5 and 6, 12 and 13 on either side, then the waist itself
Shrinking ==
  {[faces |-> LongWaist, long |-> 0, short |-> 4, rounds |-> 4,
    moving |-> BothWays({<<5, 6>>, <<12, 13>>, <<1, 2>>, <<1, 3>>})]}

\* the ring stretches, and each cut of it adds a hedge at both ends of the axis
Stretching ==
  {[faces |-> Bipyramid(9), long |-> 6, short |-> 0, rounds |-> 1,
    moving |-> BothWays({<<i, i + 1>> : i \in 3 .. 10} \cup {<<11, 3>>})]}

Fronts ==
  {[faces |-> Tetrahedron, long |-> 6, short |-> 0, rounds |-> 1, moving |-> {}],
   [faces |-> Tetrahedron, long |-> 2, short |-> 2, rounds |-> 2, moving |-> {}],
   [faces |-> Octahedron, long |-> 1, short |-> 2, rounds |-> 2, moving |-> {}],
   [faces |-> Divide(Icosahedron, 1, 3, 13), long |-> 0, short |-> 2, rounds |-> 2,
    moving |-> {}],
   [faces |-> Waist, long |-> 0, short |-> 1, rounds |-> 1, moving |-> {}]}
  \cup Shrinking \cup Stretching
=============================================================================
