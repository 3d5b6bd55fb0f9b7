----------------------------- MODULE MeshGraph -----------------------------
(***************************************************************************)
(* The faces of a mesh as a graph, and the operators postprocess.py reads  *)
(* off it: shells, regions of one label, the boundary band, the virtual    *)
(* edges between shells and the two ways an unlabelled face gets a label.  *)
(*                                                                         *)
(* A mesh is a record: faces 1..n, edges (face_adjacency, pairs of faces   *)
(* in the order of the array), smooth (the smoothness cost of each edge),  *)
(* area and at (area_faces and triangles_center, the latter on a line).    *)
(* Costs and areas are natural numbers that stand for the floats.          *)
(***************************************************************************)
EXTENDS Integers, FiniteSets, FiniteSetsExt, Functions, Sequences

Unlabelled == -1

EdgeIds(mesh) == DOMAIN mesh.edges

Pair(e) == {e[1], e[2]}

\* Edges are numbered and join two faces each, as face_adjacency has them.
IsMesh(mesh) ==
    /\ IsFiniteSet(mesh.faces) /\ mesh.faces \subseteq Nat
    /\ mesh.edges \in Seq(mesh.faces \X mesh.faces)
    /\ \A i \in EdgeIds(mesh) : mesh.edges[i][1] # mesh.edges[i][2]
    /\ mesh.smooth \in [EdgeIds(mesh) -> Nat]
    /\ mesh.area \in [mesh.faces -> Nat]
    /\ mesh.at \in [mesh.faces -> Int]

RealAdjacency(mesh) == {Pair(mesh.edges[i]) : i \in EdgeIds(mesh)}

\* The sets of faces of S that no pair of adj inside S leads out of.
Closed(S, adj) ==
    LET inside == {p \in adj : p \subseteq S}
    IN  {C \in SUBSET S : \A p \in inside : p \cap C = {} \/ p \subseteq C}

\* The connected components of the faces S: the least of these sets.
Components(S, adj) ==
    LET closed == Closed(S, adj) \ {{}}
    IN  {C \in closed : \A D \in closed : D \subseteq C => D = C}

Shells(mesh) == Components(mesh.faces, RealAdjacency(mesh))

\* label_connected_regions: what hangs together and has one label.
Regions(mesh, labels) ==
    Components(mesh.faces,
               {p \in RealAdjacency(mesh) :
                    \A f, g \in p : labels[f] = labels[g]})

Area(mesh, S) == SumFunctionOnSet(mesh.area, S)

\* The largest of some regions or faces; of equally large ones that with
\* the first face, as argmax and the order of the ids have it.
LargestOf(mesh, sets) ==
    CHOOSE S \in sets : \A T \in sets \ {S} :
        \/ Area(mesh, S) > Area(mesh, T)
        \/ Area(mesh, S) = Area(mesh, T) /\ Min(S) < Min(T)

(***************************************************************************)
(* augment_across_shells joins the largest face of each shell with that of *)
(* the shell whose centroid is nearest.  The centroid is Moment / Weight,  *)
(* so that distances are compared after multiplying out.                   *)
(***************************************************************************)
Weight(mesh, S) == IF Area(mesh, S) > 0 THEN Area(mesh, S) ELSE Cardinality(S)

Moment(mesh, S) ==
    IF Area(mesh, S) > 0
    THEN SumFunctionOnSet([f \in S |-> mesh.area[f] * mesh.at[f]], S)
    ELSE SumFunctionOnSet(mesh.at, S)

Distance(a, b) == IF a < b THEN b - a ELSE a - b

NearestShell(mesh, S) ==
    LET Gap(T) == Distance(Moment(mesh, S) * Weight(mesh, T),
                           Moment(mesh, T) * Weight(mesh, S))
        others == Shells(mesh) \ {S}
    IN  CHOOSE T \in others : \A U \in others :
            Gap(T) * Weight(mesh, U) <= Gap(U) * Weight(mesh, T)

Representative(mesh, S) == LargestOf(mesh, {{f} : f \in S})

AugmentedAdjacency(mesh) ==
    IF Cardinality(Shells(mesh)) <= 1
    THEN RealAdjacency(mesh)
    ELSE RealAdjacency(mesh) \cup
         {Representative(mesh, S) \cup Representative(mesh, NearestShell(mesh, S)) :
              S \in Shells(mesh)}

(***************************************************************************)
(* fill_by_voting.  In a round every unlabelled face takes the label most  *)
(* of its labelled neighbours have, the lowest of several, all at once.    *)
(***************************************************************************)
Voters(adj, labels, f, c) ==
    {g \in UNION {p \in adj : f \in p} \ {f} : labels[g] = c}

VoteRound(adj, labels) ==
    LET Votes(f, c) == Cardinality(Voters(adj, labels, f, c))
        Winner(f, classes) ==
            CHOOSE c \in classes : \A d \in classes \ {c} :
                \/ Votes(f, c) > Votes(f, d)
                \/ Votes(f, c) = Votes(f, d) /\ c < d
        VotedFor(f) == {labels[g] : g \in UNION {p \in adj : f \in p}} \ {Unlabelled}
    IN  [f \in DOMAIN labels |->
            IF labels[f] = Unlabelled /\ VotedFor(f) # {}
            THEN Winner(f, VotedFor(f))
            ELSE labels[f]]

FillByVoting(adj, labels, iterations) ==
    LET round[n \in 0..iterations] ==
            IF n = 0 THEN labels
            ELSE LET before == round[n - 1]
                     after == VoteRound(adj, before)
                 IN  IF after = before THEN before ELSE after
    IN  round[iterations]

(***************************************************************************)
(* _fill_unsampled_faces passes labels along the edges in their order, so  *)
(* that a label can travel far in one round.                               *)
(***************************************************************************)
EdgeRound(mesh, labels) ==
    LET Pass(l, a, b) ==
            IF l[a] = Unlabelled /\ l[b] # Unlabelled
            THEN [l EXCEPT ![a] = l[b]]
            ELSE IF l[b] = Unlabelled /\ l[a] # Unlabelled
                 THEN [l EXCEPT ![b] = l[a]]
                 ELSE l
        pass[n \in 0..Len(mesh.edges)] ==
            IF n = 0 THEN labels
            ELSE Pass(pass[n - 1], mesh.edges[n][1], mesh.edges[n][2])
    IN  pass[Len(mesh.edges)]

FillAlongEdges(mesh, labels, iterations) ==
    LET round[n \in 0..iterations] ==
            IF n = 0 THEN labels ELSE EdgeRound(mesh, round[n - 1])
    IN  round[iterations]

\* What the k-d tree can give: every face that is still unlabelled takes the
\* label of a nearest labelled one, when there is any.
NearestFills(mesh, labels) ==
    LET labelled == {f \in mesh.faces : labels[f] # Unlabelled}
        Nearest(f) == {g \in labelled : \A h \in labelled :
                            Distance(mesh.at[f], mesh.at[g])
                                <= Distance(mesh.at[f], mesh.at[h])}
        choices == [mesh.faces \ labelled -> labelled]
    IN  IF labelled = {}
        THEN {labels}
        ELSE {[f \in mesh.faces |-> IF f \in labelled THEN labels[f] ELSE labels[c[f]]] :
                  c \in {d \in choices : \A f \in DOMAIN d : d[f] \in Nearest(f)}}

(***************************************************************************)
(* boundary_band: the faces on both sides of an edge between two labels,   *)
(* widened rings times to all neighbours.                                  *)
(***************************************************************************)
BoundaryBand(mesh, labels, rings) ==
    LET adj == RealAdjacency(mesh)
        seed == UNION {p \in adj : \E f, g \in p : labels[f] # labels[g]}
        wide[n \in 0..rings] ==
            IF n = 0 THEN seed
            ELSE wide[n - 1] \cup UNION {p \in adj : p \cap wide[n - 1] # {}}
    IN  wide[rings]
=============================================================================
