------------------------------ MODULE HalfEdge ------------------------------
(***************************************************************************)
(* hmesh_remesh () of src/backup/hmesh-remesh.h: rounds of splitting the   *)
(* long edges of a half-edge surface, then collapsing the short ones.  One *)
(* step per hedge a loop changes.  Which edges are long or short, and      *)
(* which of two is the longer, is geometry: any choice, within a budget.   *)
(*                                                                         *)
(* A foreach loop visits in the order of their ids the hedges that exist   *)
(* when it starts; todo is what it has yet to visit.                       *)
(***************************************************************************)
EXTENDS HedgeOps

CONSTANTS
  Starts,       \* [faces, long, short, rounds, moving]: a front, how many edges may be
                \* found long and short from there on, the rounds (6 in the code), and
                \* which edges may be so, as pairs of points: any, when the set is empty
  Limits        \* 5: limits of hmesh_collapse ()

ASSUME RemeshAssumption == /\ Limits \in Nat
                           /\ \A s \in Starts : s.rounds \in 1 .. 6

VARIABLES
  mesh,
  phase,        \* "edges", "faces", "divided", "mark", "merged", "collapsed", "done", or
                \* "aborted" by an assertion
  todo,
  nsplit, collapsed, abandoned, tcollapsed, limits,     \* as in the code
  round,        \* k of hmesh_remesh ()
  budget,       \* [long, short, rounds, moving]: bounds of the model
  simple,       \* history: every edge that was collapsed could be contracted
  surface       \* history: the polygons of mesh while it is simple, for the refinement

control == <<phase, todo, nsplit, collapsed, abandoned, tcollapsed, limits, round, budget>>
vars == <<mesh, control, simple, surface>>

\* the directed edge from the start of h to its end
EndsOf(m, h) == <<m.hedge[h].v, m.hedge[HedgeNext(m, h)].v>>

\* a face as the set of its directed edges
Polygons(m) == {{EndsOf(m, x) : x \in ToSet(Sides(m, h))} : h \in Hedges(m)}

\* a directed edge belongs to one hedge
IsSimple(m)  == /\ \A h \in Hedges(m) : EndsOf(m, h)[1] # EndsOf(m, h)[2]
                /\ Cardinality({EndsOf(m, h) : h \in Hedges(m)}) = Cardinality(Hedges(m))

\* the ends of an edge have the corners of its faces in common and no other neighbour
Neighbours(m, h) == {EndsOf(m, x)[2] : x \in Star(m, h)}
Contracts(m, h)  == Cardinality(Neighbours(m, h) \cap Neighbours(m, HedgeFlip(m, h))) = 2

After(h) == {x \in todo : x > h}

Init ==
  \E start \in Starts :
    /\ mesh = HmeshInit(start.faces)
    /\ budget = [long |-> start.long, short |-> start.short, rounds |-> start.rounds,
                 moving |-> start.moving]
    /\ phase = "edges" /\ todo = Hedges(mesh) /\ round = 0 /\ limits = Limits
    /\ nsplit = 0 /\ collapsed = 0 /\ abandoned = 0 /\ tcollapsed = 0
    /\ simple = IsSimple(mesh) /\ surface = Polygons(mesh)
-----------------------------------------------------------------------------
(***************************************************************************)
(* hmesh_split ()                                                          *)
(***************************************************************************)
Moving(h) == budget.moving = {} \/ EndsOf(mesh, h) \in budget.moving

\* hedge_split_criteria () of an edge or its flip
Splits(h) == budget.long > 0 /\ Moving(h)

VisitEdge(h) ==
  /\ phase = "edges"
  /\ h \in todo \cap FullEdges(mesh) /\ Splits(h)
  /\ todo' = After(h)
  /\ nsplit' = nsplit + 1
  /\ budget' = [budget EXCEPT !.long = @ - 1]
  /\ UNCHANGED <<phase, collapsed, abandoned, tcollapsed, limits, round>>

SplitEdge(h) == VisitEdge(h) /\ mesh' = HedgeSplit(HedgeSplit(mesh, HedgeFlip(mesh, h)), h)

EdgesDone ==
  /\ phase = "edges"
  /\ phase' = "faces" /\ todo' = Hedges(mesh)
  /\ UNCHANGED <<mesh, nsplit, collapsed, abandoned, tcollapsed, limits, round, budget>>

Halved == {h \in todo : Regrid(mesh, h) # "none"}

VisitFace ==
  /\ phase = "faces" /\ Halved # {}
  /\ todo' = After(Min(Halved))
  /\ UNCHANGED <<phase, nsplit, collapsed, abandoned, tcollapsed, limits, round, budget>>

SplitFace(shorter) ==
  /\ VisitFace
  /\ LET h == Min(Halved)
     IN  /\ shorter => Len(HalvedSides(mesh, h)) = 2
         /\ mesh' = HfaceSplit(mesh, h, shorter)

Checked(next) == phase' \in {next, "aborted"}
Asserted == UNCHANGED mesh /\ (phase' = "aborted" <=> ~AssertsHold(mesh))

LeaveFaces ==
  /\ phase = "faces" /\ Halved = {}
  /\ Checked("divided")
  /\ UNCHANGED <<todo, nsplit, collapsed, abandoned, tcollapsed, limits, round, budget>>

FacesDone == LeaveFaces /\ Asserted
-----------------------------------------------------------------------------
(***************************************************************************)
(* hmesh_collapse ()                                                       *)
(***************************************************************************)
StartPass == phase' = "mark" /\ todo' = Hedges(mesh) /\ collapsed' = 0 /\ abandoned' = 0

StartCollapse ==
  /\ phase = "divided"
  /\ StartPass
  /\ limits' = Limits /\ tcollapsed' = 0
  /\ UNCHANGED <<mesh, nsplit, round, budget>>

\* an edge is shorter than amin
Short(h) == budget.short > 0 /\ Moving(h)

TryCollapse(h) ==
  /\ phase = "mark"
  /\ h \in todo \cap FullEdges(mesh) /\ Short(h)
  /\ \/ /\ ~Abandons(mesh, h)
        /\ mesh' = Marked(mesh, h)
        /\ collapsed' = collapsed + 1
        /\ UNCHANGED abandoned
     \/ /\ Abandons(mesh, h)
        /\ abandoned' = abandoned + 1
        /\ UNCHANGED <<mesh, collapsed>>
  /\ todo' = After(h)
  /\ budget' = [budget EXCEPT !.short = @ - 1]
  /\ UNCHANGED <<phase, nsplit, tcollapsed, limits, round>>

\* no collapse: the loop is left with what was abandoned
LeavePass ==
  /\ phase = "mark" /\ collapsed = 0
  /\ Checked("collapsed")
  /\ UNCHANGED <<todo, nsplit, collapsed, abandoned, tcollapsed, limits, round, budget>>

NoneCollapses == LeavePass /\ Asserted

\* hface_collapse () for the marked edges in turn, and the sweep
ToCollapse(m) == SetToSortSeq({h \in FullEdges(m) : Regrid(m, h) = "collapse"}, <)

LeaveMarks ==
  /\ phase = "mark" /\ collapsed > 0
  /\ tcollapsed' = tcollapsed + collapsed
  /\ phase' = "merged"
  /\ UNCHANGED <<todo, nsplit, collapsed, abandoned, limits, round, budget>>

Merge == LeaveMarks /\ mesh' = Sweep(FoldLeft(HfaceCollapse, mesh, ToCollapse(mesh)))

\* while (abandoned && limits--)
CollapseAgain ==
  /\ phase = "merged" /\ abandoned > 0 /\ limits > 0
  /\ StartPass
  /\ limits' = limits - 1
  /\ UNCHANGED <<mesh, nsplit, tcollapsed, round, budget>>

LeavePasses ==
  /\ phase = "merged" /\ (abandoned = 0 \/ limits = 0)
  /\ Checked("collapsed")
  /\ UNCHANGED <<todo, nsplit, collapsed, abandoned, tcollapsed, limits, round, budget>>

CollapseDone == LeavePasses /\ Asserted
-----------------------------------------------------------------------------
(***************************************************************************)
(* hmesh_remesh (); hmesh_smooth () moves points only                      *)
(***************************************************************************)
Changed == nsplit > 0 \/ tcollapsed > 0

NextRound ==
  /\ phase = "collapsed" /\ Changed /\ round + 1 < budget.rounds
  /\ phase' = "edges" /\ todo' = Hedges(mesh) /\ nsplit' = 0
  /\ round' = round + 1
  /\ UNCHANGED <<mesh, collapsed, abandoned, tcollapsed, limits, budget>>

Stop ==
  /\ phase = "collapsed" /\ (~Changed \/ round + 1 = budget.rounds)
  /\ phase' = "done"
  /\ UNCHANGED <<mesh, todo, nsplit, collapsed, abandoned, tcollapsed, limits, round, budget>>

Step ==
  \/ \E h \in Hedges(mesh) : SplitEdge(h) \/ TryCollapse(h)
  \/ EdgesDone \/ \E shorter \in BOOLEAN : SplitFace(shorter)
  \/ FacesDone \/ StartCollapse \/ NoneCollapses \/ Merge \/ CollapseAgain \/ CollapseDone
  \/ NextRound \/ Stop

Next == /\ Step
        /\ simple' = (simple /\ (phase' = "merged" => \A h \in Hedges(mesh) :
                                   Regrid(mesh, h) = "collapse" => Contracts(mesh, h)))
        /\ surface' = IF simple' THEN Polygons(mesh') ELSE surface

\* The program runs on until it returns: its control, here without what the
\* steps do to the mesh, never stays where it can move.
Moves ==
  \/ EdgesDone \/ VisitFace \/ LeaveFaces \/ StartCollapse \/ LeavePass \/ LeaveMarks
  \/ CollapseAgain \/ LeavePasses \/ NextRound \/ Stop
  \/ \E h \in todo : VisitEdge(h) \/ TryCollapse(h)

Spec == Init /\ [][Next]_vars /\ WF_control(Moves)
-----------------------------------------------------------------------------
(***************************************************************************)
(* Properties                                                              *)
(***************************************************************************)
TypeOK ==
  /\ mesh.hedge \in [Hedges(mesh) -> HedgeType(Hedges(mesh), Points(mesh))]
  /\ mesh.val \in [Points(mesh) -> 0 .. 15]
  /\ phase \in {"edges", "faces", "divided", "mark", "merged", "collapsed", "done", "aborted"}
  /\ todo \subseteq Nat /\ round \in 0 .. budget.rounds - 1 /\ limits \in 0 .. Limits
  /\ {nsplit, collapsed, abandoned, tcollapsed} \subseteq Nat /\ simple \in BOOLEAN

\* foreach_fulledge sees every edge once: of two twins exactly one is first, also
\* while faces wait to be split, and after twins were bridged over deleted faces
TwinsPaired ==
  \A h \in Hedges(mesh) : LET g == HedgeFlip(mesh, h)
                          IN  HedgeFlip(mesh, g) = h /\ mesh.hedge[g].second # mesh.hedge[h].second

\* where hmesh_valid () is asserted
InspectedMesh == phase \in {"divided", "collapsed"} \/ (phase = "edges" /\ nsplit = 0)

\* As long as no edge was collapsed whose ends had a third neighbour in common, no two
\* hedges of a checked mesh have the same ends, and "assert (hmesh_valid (fr) < 8)" after
\* splitting and after collapsing, and "assert (!hmesh_valid (fr))" for a new mesh, fail
\* for one reason alone, a fan of 15 hedges, which the check meets before the walks of
\* hedge_collapse () can.  Twins are paired at all times; in a checked mesh the valences
\* are outside [3, 10) at worst, and the stored ones and the order in the faces are
\* right, through operations that copy flags, halve edges one side at a time and leave
\* valences to the deletions.  (The four bits of a valence and the walk of a longer fan
\* both run over: of such a point the check sees a part.)
MeshValid ==
  /\ phase \in {"mark", "merged"} => \A h \in Hedges(mesh) : ~FanFails(mesh, h)
  /\ simple /\ phase = "aborted"  => \E h \in Hedges(mesh) : FanFails(mesh, h)
  /\ simple                       => TwinsPaired
  /\ simple /\ InspectedMesh      =>
       /\ IsSimple(mesh)
       /\ \A h \in Hedges(mesh) :
            ErrorsAt(mesh, h) \subseteq IF FanIsCut(mesh, h) THEN {1, 2} ELSE {1}

\* "assert (hmesh_valid (fr) < 8)": whatever the lengths of the edges, a mesh that was
\* split or collapsed has valences and orders wrong at worst, never a flip, a face or an
\* edge of length zero (a fan of 15 hedges, which stops the check before, aside).  This
\* is false: hedge_collapse () does not ask whether the ends of an edge have a neighbour
\* in common besides the corners of its two faces (that test is commented out), and so
\* collapses a waist of three edges to two, and the two to length zero.
ValidAfterPasses ==
  phase = "aborted" /\ (\A h \in Hedges(mesh) : ~FanFails(mesh, h)) =>
    Errors(mesh) \subseteq {1, 2, 4}

\* "abandon in case of low valence. (v<4)": a point that loses a hedge and absorbs
\* no other point keeps four, even when collapses of one pass, each of which looked
\* at the valence before, take hedges of the same point.  The point two are merged into
\* does not: the code tests v0 + v1 - 2 where v0 + v1 - 4 hedges are left, so that it
\* may have two.
LowValenceGuarded ==
  [][phase = "mark" =>
       \A v \in Points(mesh)' :
         mesh'.val[v] < mesh.val[v] =>
           \/ mesh'.val[v] >= 4
           \/ /\ mesh'.val[v] >= 2
              /\ \E h \in Hedges(mesh) : Regrid(mesh, h) = "collapse" /\ mesh.hedge[h].v = v]_vars

\* Every step puts a vertex on an edge, cuts a polygon into triangles, contracts
\* edges that lie apart, or leaves the surface as it is.
S == INSTANCE Surface WITH polygons <- surface

ImplementsSurface == S!Spec

\* Remeshing ends: it returns, and whatever was marked as being split, collapsed or not
\* to be touched is finished and unmarked.  An assertion stops it only where a fan has 15
\* hedges or an edge was collapsed that cannot be contracted.
Completes ==
  <>[](\/ phase = "done" /\ \A h \in Hedges(mesh) : Regrid(mesh, h) = "none"
       \/ phase = "aborted" /\ (simple => \E h \in Hedges(mesh) : FanFails(mesh, h)))
=============================================================================
