------------------------------ MODULE Surface ------------------------------
(***************************************************************************)
(* What remeshing promises: a surface made of polygons changes only by     *)
(* putting a vertex on an edge, by cutting a polygon into triangles, and   *)
(* by contracting edges that lie apart.  A polygon is the set of its       *)
(* directed edges.                                                         *)
(***************************************************************************)
EXTENDS Integers, FiniteSets

VARIABLE polygons

Edges(S)      == UNION S
Corners(p)    == {e[1] : e \in p}
Vertices(S)   == UNION {Corners(p) : p \in S}
Linked(S, v, w) == <<v, w>> \in Edges(S) \/ <<w, v>> \in Edges(S)

\* a new vertex m halves the edge between a and b in the polygons on both sides
Halved(p, a, b, m) ==
  IF <<a, b>> \in p THEN (p \ {<<a, b>>}) \cup {<<a, m>>, <<m, b>>} ELSE p

HalveEdge == \E m \in Vertices(polygons)' \ Vertices(polygons), e \in Edges(polygons) :
               polygons' = {Halved(Halved(p, e[1], e[2], m), e[2], e[1], m) : p \in polygons}

\* pieces are triangles that cover p, their other sides paired
Triangulates(pieces, p) ==
  LET cuts == UNION pieces \ p
  IN  /\ \A t \in pieces : Cardinality(t) = 3 /\ Cardinality(Corners(t)) = 3
      /\ Cardinality(pieces) = Cardinality(p) - 2
      /\ p \subseteq UNION pieces /\ Vertices(pieces) = Corners(p)
      /\ \A e \in cuts : <<e[2], e[1]>> \in cuts
      /\ Cardinality(cuts) = 2 * (Cardinality(p) - 3)

CutPolygon == \E p \in polygons \ polygons' :
                /\ polygons \ {p} \subseteq polygons'
                /\ Triangulates(polygons' \ polygons, p)

(***************************************************************************)
(* Every vertex that goes joins a neighbour; the polygons on both sides of *)
(* that edge vanish.  No end of one contracted edge is linked to an end of *)
(* another.                                                                *)
(***************************************************************************)
Contracted(into) ==
  LET Kept(v) == IF v \in DOMAIN into THEN into[v] ELSE v
      flat(p) == \E e \in p : Kept(e[1]) = Kept(e[2])
  IN  {{<<Kept(e[1]), Kept(e[2])>> : e \in p} : p \in {q \in polygons : ~flat(q)}}

Apart(into) ==
  \A v, w \in DOMAIN into : v # w =>
    \A x \in {v, into[v]}, y \in {w, into[w]} : x # y /\ ~Linked(polygons, x, y)

ContractEdges ==
  LET gone == Vertices(polygons) \ Vertices(polygons)'
  IN  /\ gone # {}
      /\ \E into \in [gone -> Vertices(polygons)'] :
           /\ \A v \in gone : Linked(polygons, v, into[v])
           /\ Apart(into)
           /\ polygons' = Contracted(into)

\* a closed surface: each side of a polygon is the side of one other, reversed
Closed(S) == \A e \in Edges(S) : /\ <<e[2], e[1]>> \in Edges(S)
                                 /\ \A p, q \in S : e \in p /\ e \in q => p = q

Init == Closed(polygons)
Next == HalveEdge \/ CutPolygon \/ ContractEdges
Spec == Init /\ [][Next]_polygons
=============================================================================
