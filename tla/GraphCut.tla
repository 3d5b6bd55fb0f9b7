------------------------------ MODULE GraphCut ------------------------------
(***************************************************************************)
(* One step of graph_cut_fast_from_unary: the network _make_tasks and      *)
(* _solve_subproblem build for a label and a component of the band, and    *)
(* the minimum cuts of it.  The source is the label's side: a face that    *)
(* ends on the sink's side switches to the label.                          *)
(***************************************************************************)
EXTENDS MeshGraph

Smoothness(mesh, ids) == SumFunctionOnSet(mesh.smooth, ids)

\* The edges from face f out of the band, to the other face of each.
Crossing(mesh, band, f) ==
    {i \in EdgeIds(mesh) : f \in Pair(mesh.edges[i]) /\ ~ Pair(mesh.edges[i]) \subseteq band}

Outside(mesh, band, i) == CHOOSE g \in Pair(mesh.edges[i]) : g \notin band

\* The capacities between the source, a face and the sink: the face's own
\* costs, and the edges to neighbours outside the band, whose labels stay.
SourceCapacity(mesh, cost, labels, band, label, f) ==
    cost[f][label] +
    Smoothness(mesh, {i \in Crossing(mesh, band, f) :
                          labels[Outside(mesh, band, i)] # label})

SinkCapacity(mesh, cost, labels, band, label, f) ==
    cost[f][labels[f]] +
    Smoothness(mesh, {i \in Crossing(mesh, band, f) :
                          labels[Outside(mesh, band, i)] = label})

(***************************************************************************)
(* What an edge of the component adds to the cut that leaves the faces S   *)
(* on the sink's side.  Between equal labels the edge joins the two faces. *)
(* Between different ones it goes through an auxiliary node, which has an  *)
(* edge to the sink and one to each of the two faces that does not have    *)
(* the label, and takes the side that is cheaper.                          *)
(***************************************************************************)
EdgeCut(mesh, labels, label, S, i) ==
    LET ends == Pair(mesh.edges[i])
        others == {f \in ends : labels[f] # label}
        uniform == \A f, g \in ends : labels[f] = labels[g]
        auxAtSource == 1 + Cardinality(others \cap S)
        auxAtSink == Cardinality(others \ S)
        cuts == IF uniform
                THEN IF others \cap S # {} /\ others \ S # {} THEN 1 ELSE 0
                ELSE Min({auxAtSource, auxAtSink})
    IN  cuts * mesh.smooth[i]

CutCost(mesh, cost, labels, band, component, label, S) ==
    LET inner == {i \in EdgeIds(mesh) : Pair(mesh.edges[i]) \subseteq component}
        atSink == [f \in S |-> SourceCapacity(mesh, cost, labels, band, label, f)]
        atSource == [f \in component \ S |->
                        SinkCapacity(mesh, cost, labels, band, label, f)]
        between == [i \in inner |-> EdgeCut(mesh, labels, label, S, i)]
    IN  SumFunction(atSink) + SumFunction(atSource) + SumFunction(between)

\* The sink sides of the minimum cuts.  A face that has the label already is
\* tied to the sink by an infinite capacity.
MinimumCuts(mesh, cost, labels, band, component, label) ==
    LET has == {f \in component : labels[f] = label}
        sides == {has \cup T : T \in SUBSET (component \ has)}
        value == [S \in sides |-> CutCost(mesh, cost, labels, band, component, label, S)]
    IN  {S \in sides : \A T \in sides : value[S] <= value[T]}

Switch(labels, S, label) == [f \in DOMAIN labels |-> IF f \in S THEN label ELSE labels[f]]

\* The labellings one label's pass over all components can give.
Expansions(mesh, cost, labels, band, label) ==
    LET components == Components(band, RealAdjacency(mesh))
        tasks == {c \in components : \E f \in c : labels[f] # label}
        cuts == UNION {{<<c, S>> : S \in MinimumCuts(mesh, cost, labels, band, c, label)} :
                          c \in tasks}
        solutions == {S \in SUBSET UNION tasks : \A c \in tasks : <<c, S \cap c>> \in cuts}
    IN  {Switch(labels, S, label) : S \in solutions}
=============================================================================
