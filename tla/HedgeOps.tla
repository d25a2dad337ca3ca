------------------------------ MODULE HedgeOps ------------------------------
(***************************************************************************)
(* The half-edge surface of src/backup/hmesh.h and the operations of       *)
(* src/backup/hmesh-remesh.h on it, as operators on a mesh: hedge[h] is    *)
(* the half-edge with id h, val[v] the four bits of v->flags that store    *)
(* the valence of the point v.  prev is left out: hmesh_init () sets it    *)
(* and nothing reads it.                                                   *)
(***************************************************************************)
EXTENDS Integers, SequencesExt

\* second: flags & 4; order: (flags & 24) >> 3; regrid: flags & 3
HedgeType(ids, points) ==
  [next : ids, flip : ids, v : points, second : BOOLEAN, order : 0 .. 3,
   regrid : {"none", "split", "collapse", "keep"}]

Hedges(m)    == DOMAIN m.hedge
Points(m)    == DOMAIN m.val
HedgeNext(m, h)   == m.hedge[h].next
HedgeFlip(m, h)   == m.hedge[h].flip
Third(m, h)  == HedgeNext(m, HedgeNext(m, h))
Pivot(m, h)  == m.val[m.hedge[h].v]
Regrid(m, h) == m.hedge[h].regrid
FullEdges(m) == {h \in Hedges(m) : ~m.hedge[h].second}

\* hnext: the next corner of a face whose edges may be halved already
Hnext(m, h) == IF Regrid(m, h) = "split" THEN Third(m, h) ELSE HedgeNext(m, h)

\* what a loop visits that starts at h, steps along Step and stops when it is back,
\* or after limit hedges
Walk(Step(_), h, limit) ==
  LET first[n \in 1 .. limit] ==
        IF n = 1 THEN <<h>>
        ELSE LET so_far == first[n - 1]  x == Step(Last(so_far))
             IN  IF x = h THEN so_far ELSE Append(so_far, x)
  IN  first[limit]

\* hedge_valence_start: the hedges around the pivot of h.  Its assertion fails when
\* the 15th step is the one that comes back.
MaxFan  == 15
Fan(m, h) == LET Turn(x) == HedgeNext(m, HedgeFlip(m, x)) IN Walk(Turn, h, MaxFan)
Star(m, h) == ToSet(Fan(m, h))

Turned(m, h)   == HedgeNext(m, HedgeFlip(m, Last(Fan(m, h))))
FanFails(m, h) == Len(Fan(m, h)) = MaxFan /\ Turned(m, h) = h
FanIsCut(m, h) == Turned(m, h) # h

\* hface_start: at most six sides, when all edges of a triangle are halved
Sides(m, h) == LET Step(x) == HedgeNext(m, x) IN Walk(Step, h, 6)

\* hmesh_valid (): the errors it reports for one hedge, as the bits it sets
ErrorsAt(m, h) ==
  LET fan == Fan(m, h)  sides == Sides(m, h)  e == m.hedge[h]
  IN  {bit \in {1, 2, 4, 8, 16, 32, 64, 128} :
         CASE bit = 1   -> Len(fan) \notin 3 .. 9
           [] bit = 2   -> Pivot(m, h) # Len(fan)
           [] bit = 4   -> \E i \in DOMAIN sides :
                             m.hedge[sides[i]].order # (e.order + i - 1) % 3
           [] bit = 8   -> Len(sides) # 3
           [] bit = 16  -> \E i \in DOMAIN fan : m.hedge[fan[i]].v # e.v
           [] bit = 32  -> HedgeFlip(m, e.flip) # h
           [] bit = 64  -> m.hedge[e.next].v = e.v
           [] bit = 128 -> e.regrid # "none"}

Errors(m) == UNION {ErrorsAt(m, h) : h \in Hedges(m)}

\* assert (hmesh_valid (fr) < 8), which walks every fan
AssertsHold(m) == Errors(m) \subseteq {1, 2, 4} /\ \A h \in Hedges(m) : ~FanFails(m, h)

\* add_hedge: the front library hands out the next id; the point counts one more
\* hedge, in four bits
NewHedge(m) == Max(Hedges(m)) + 1
NewPoint(m) == Max(Points(m)) + 1

AddHedge(m, hedge) ==
  [hedge |-> NewHedge(m) :> hedge @@ m.hedge,
   val   |-> hedge.v :> (IF hedge.v \in Points(m) THEN (m.val[hedge.v] + 1) % 16 ELSE 1) @@ m.val]

(***************************************************************************)
(* hmesh_init (): faces is a sequence of vertex triples, as the elements   *)
(* of a front.  Hedge d of face f starts at vertex d; its flip is the      *)
(* hedge of the element across, and the one with the lower id is first.    *)
(***************************************************************************)
HmeshInit(faces) ==
  LET ids     == 0 .. 3 * Len(faces) - 1
      At(h)   == faces[(h \div 3) + 1][(h % 3) + 1]
      Succ(h) == 3 * (h \div 3) + ((h + 1) % 3)
      Twin(h) == CHOOSE g \in ids : At(g) = At(Succ(h)) /\ At(Succ(g)) = At(h)
  IN  [hedge |-> [h \in ids |-> [next |-> Succ(h), flip |-> Twin(h), v |-> At(h),
                                 second |-> Twin(h) < h, order |-> h % 3, regrid |-> "none"]],
       val   |-> [v \in {At(h) : h \in ids} |-> Cardinality({h \in ids : At(h) = v}) % 16]]
-----------------------------------------------------------------------------
(***************************************************************************)
(* Splitting                                                               *)
(***************************************************************************)
\* mutant: the flips of the halves are not crossed
HedgeSplitUncrossed(m, h) ==
  LET flip   == HedgeFlip(m, h)
      halved == Regrid(m, flip) # "none"
      v      == IF halved THEN m.hedge[HedgeNext(m, flip)].v ELSE NewPoint(m)
  IN  [AddHedge(m, [m.hedge[h] EXCEPT !.v = v, !.regrid = "none"]) EXCEPT
         !.hedge[h].next = NewHedge(m), !.hedge[h].regrid = "split"]

\* hedge_split (): h is halved.  The first of two twins makes the midpoint; the
\* second finds it behind its flip and crosses the flips of the halves.
HedgeSplit(m, h) ==
  LET flip    == HedgeFlip(m, h)
      halved  == Regrid(m, flip) # "none"
      new     == NewHedge(m)
      v       == IF halved THEN m.hedge[HedgeNext(m, flip)].v ELSE NewPoint(m)
      added   == AddHedge(m, [m.hedge[h] EXCEPT !.v = v, !.regrid = "none"])
  IN  [added EXCEPT
         !.hedge[h] = [@ EXCEPT !.next = new, !.regrid = "split",
                                !.flip = IF halved THEN HedgeNext(m, flip) ELSE @],
         !.hedge[flip].flip = IF halved THEN new ELSE @]

\* hface_split (), one round of its last loop: the triangle that A[0] halves is cut
\* from the midpoint to the opposite corner
BisectFromStart(m, h) ==         \* mutant: the second half of b is not looked for
  LET b == Hnext(m, h)  c == Hnext(m, b)  p == NewHedge(m)
      P == [next |-> c, flip |-> p + 1, v |-> m.hedge[HedgeNext(m, h)].v, second |-> FALSE,
            order |-> (m.hedge[h].order + 1) % 3, regrid |-> "none"]
      Q == [next |-> HedgeNext(m, h), flip |-> p, v |-> m.hedge[c].v, second |-> TRUE,
            order |-> (m.hedge[b].order + 1) % 3, regrid |-> "none"]
  IN  [AddHedge(AddHedge(m, P), Q) EXCEPT
         !.hedge[h].next = p, !.hedge[h].regrid = "none", !.hedge[b].next = p + 1]

Bisect(m, h) ==
  LET b == Hnext(m, h)
      c == Hnext(m, b)
      b2 == IF Regrid(m, b) # "none" THEN HedgeNext(m, b) ELSE b
      p == NewHedge(m)
      q == p + 1
      P == [next |-> c, flip |-> q, v |-> m.hedge[HedgeNext(m, h)].v, second |-> FALSE,
            order |-> (m.hedge[h].order + 1) % 3, regrid |-> "none"]
      Q == [next |-> HedgeNext(m, h), flip |-> p, v |-> m.hedge[c].v, second |-> TRUE,
            order |-> (m.hedge[b2].order + 1) % 3, regrid |-> "none"]
  IN  [AddHedge(AddHedge(m, P), Q) EXCEPT
         !.hedge[h].next = p, !.hedge[h].regrid = "none", !.hedge[b2].next = q]

\* its special case: all three edges are halved, and the midpoints form a triangle
Quarter(m, corner) ==            \* corner: 0 .. 2 -> the three halved hedges
  LET new      == NewHedge(m)
      Outer(d) == new + 2 * d
      Inner(d) == new + 2 * d + 1
      After(d) == (d + 1) % 3
      Mid(d)   == m.hedge[HedgeNext(m, corner[d])].v
      outer(d) == [next |-> HedgeNext(m, corner[d]), flip |-> Inner(d), v |-> Mid(After(d)),
                   second |-> FALSE, order |-> (m.hedge[corner[After(d)]].order + 1) % 3,
                   regrid |-> "none"]
      inner(d) == [next |-> Inner(After(d)), flip |-> Outer(d), v |-> Mid(d),
                   second |-> TRUE, order |-> d, regrid |-> "none"]
      added    == FoldLeft(AddHedge, m, <<outer(0), inner(0), outer(1), inner(1),
                                          outer(2), inner(2)>>)
      corners  == {corner[d] : d \in 0 .. 2}
      Number(h) == CHOOSE d \in 0 .. 2 : corner[d] = h
  IN  [added EXCEPT !.hedge = [h \in DOMAIN @ |->
         IF h \in corners THEN [@[h] EXCEPT !.next = Outer((Number(h) + 2) % 3), !.regrid = "none"]
                          ELSE @[h]]]

\* the halved edges of the face of h, from h on
HalvedSides(m, h) ==
  LET b == Hnext(m, h)
  IN  SelectSeq(<<h, b, Hnext(m, b)>>, LAMBDA x : Regrid(m, x) # "none")

\* hface_split (): of two halved edges the longer goes first; shorter says that it
\* is not h
HfaceSplit(m, h, shorter) ==
  LET halved == HalvedSides(m, h)
  IN  IF Len(halved) = 3 THEN Quarter(m, [d \in 0 .. 2 |-> halved[d + 1]])
      ELSE FoldLeft(Bisect, m, IF shorter THEN Reverse(halved) ELSE halved)
-----------------------------------------------------------------------------
(***************************************************************************)
(* Collapsing                                                              *)
(***************************************************************************)
\* mutant: the flips around the ends are not looked at
AbandonsByStar(m, h) ==
  LET twins == {h, HedgeFlip(m, h)}
      sum   == Pivot(m, h) + Pivot(m, HedgeFlip(m, h))
  IN  \/ sum - 2 < 4 \/ sum - 2 > 10
      \/ \E x \in twins : \/ Pivot(m, Third(m, x)) - 1 < 4
                         \/ \E y \in Star(m, x) : Regrid(m, y) # "none"

\* hedge_collapse (): any reason to abandon
Abandons(m, h) ==
  LET twins == {h, HedgeFlip(m, h)}
      sum   == Pivot(m, h) + Pivot(m, HedgeFlip(m, h))
  IN  \/ sum - 2 < 4 \/ sum - 2 > 10
      \/ \E x \in twins :
           \/ Pivot(m, Third(m, x)) - 1 < 4
           \/ \E y \in Star(m, x) : Regrid(m, y) # "none" \/ Regrid(m, HedgeFlip(m, y)) # "none"

\* hedge_collapse (): h and its flip are to collapse, what is around them must not
Marked(m, h) ==
  LET twins  == {h, HedgeFlip(m, h)}
      around == Star(m, h) \cup Star(m, HedgeFlip(m, h))
  IN  [m EXCEPT !.hedge = [x \in DOMAIN @ |->
         IF x \in twins THEN [@[x] EXCEPT !.regrid = "collapse"]
         ELSE IF x \in around THEN [@[x] EXCEPT !.regrid = "keep"] ELSE @[x]]]

BridgedAhead(m, h) ==            \* mutant: one way
  [m EXCEPT !.hedge[HedgeFlip(m, HedgeNext(m, h))].flip = HedgeFlip(m, Third(m, h))]

\* the two flips of the other sides of the face of h become twins
Bridged(m, h) ==
  LET n == HedgeFlip(m, HedgeNext(m, h))  nn == HedgeFlip(m, Third(m, h))
  IN  [m EXCEPT !.hedge[n].flip = nn, !.hedge[nn].flip = n]

\* hface_collapse (): the point with the lower id stays and takes over the other's
\* hedges; the face of h is bridged, and then the face of its flip.  (Of an edge of
\* length zero the one point is deleted; the hedges that have it still read it.)
HfaceCollapse(m, h) ==
  LET flip  == HedgeFlip(m, h)
      lower == m.hedge[h].v < m.hedge[flip].v
      kept  == m.hedge[IF lower THEN h ELSE flip].v
      lost  == IF lower THEN flip ELSE h
      taken == [m EXCEPT !.hedge = [x \in DOMAIN @ |->
                 IF x \in Star(m, lost) THEN [@[x] EXCEPT !.v = kept] ELSE @[x]]]
  IN  [hedge |-> FoldLeft(Bridged, taken, <<h, flip>>).hedge,
       val   |-> [v \in Points(m) \ ({m.hedge[lost].v} \ {kept}) |->
                    IF v = kept THEN (Pivot(m, h) + Pivot(m, flip)) % 16 ELSE m.val[v]]]

KeptAlways(regrid) == regrid              \* mutant: what was kept stays marked
Unkept(regrid)     == IF regrid = "keep" THEN "none" ELSE regrid

\* the bridged flips of a collapsed face become first and second half
Halves(m, h) == [m EXCEPT !.hedge[HedgeFlip(m, HedgeNext(m, h))].second = FALSE,
                          !.hedge[HedgeFlip(m, Third(m, h))].second = TRUE]

\* the last loop of hmesh_collapse (): the faces of collapsed hedges are deleted, their
\* bridged flips told apart, and what was kept is free again
Sweep(m) ==
  LET collapsed == {h \in Hedges(m) : Regrid(m, h) = "collapse"}
      deleted   == {h \in Hedges(m) : {h, HedgeNext(m, h), Third(m, h)} \cap collapsed # {}}
      halved    == FoldLeft(Halves, m, SetToSortSeq(collapsed, <))
  IN  [hedge |-> [h \in Hedges(m) \ deleted |-> [halved.hedge[h] EXCEPT !.regrid = Unkept(@)]],
       val   |-> [v \in Points(m) |->
                    (m.val[v] - Cardinality({h \in deleted : m.hedge[h].v = v})) % 16]]
=============================================================================
