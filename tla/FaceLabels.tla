----------------------------- MODULE FaceLabels -----------------------------
(***************************************************************************)
(* How _color_mesh_by_logits (test_mask_pred.py) turns the logits of the   *)
(* sampled points into one label per face: the labels of the sampled faces *)
(* are spread to the others, small regions are dropped and refilled, tail  *)
(* regions are merged into their neighbours (postprocess_face_labels), and *)
(* the borders between labels are moved by alpha expansion inside a band   *)
(* around them (graph_cut_fast_from_unary).                                *)
(*                                                                         *)
(* The logits are the costs they become: a face without a sampled point    *)
(* has the row Uniform, any other the row of its point, whose cheapest     *)
(* class is its first label.  Costs, areas and positions are integers.     *)
(* The switches of get_graph_cut_cfg and get_postprocess_cfg that are set  *)
(* in the source (fast, converge, stitch_shells, no split, no tolerated    *)
(* change) are taken as set.                                               *)
(***************************************************************************)
EXTENDS GraphCut, SequencesExt

CONSTANTS
    Classes,          \* indices of the parts and of the background
    Cases,            \* the inputs: a mesh and a row of costs per face
    Uniform,          \* the row of a face without points
    VoteIterations,   \* vote_iterations
    FillIterations,   \* the rounds of _fill_unsampled_faces
    HighPoly,         \* fast_highpoly_threshold, highpoly_face_threshold
    RelArea,          \* pp_rel_area_threshold, in thousandths
    Cumulative,       \* cumulative_threshold, in hundredths
    MaxPartArea,      \* max_part_area, in hundredths
    BandRings,        \* band_rings
    BandFallbacks,    \* band_fallbacks
    MaxBandFaces, MaxProduct, MaxComponents,   \* the budgets
    MaxSweeps         \* max_sweeps

ASSUME ClassesAssumption ==
    Classes \subseteq Nat /\ IsFiniteSet(Classes) /\ Classes # {}
ASSUME UniformAssumption == Uniform \in [Classes -> Nat]
ASSUME RoundsAssumption ==
    /\ {VoteIterations, FillIterations, BandRings, MaxSweeps} \subseteq Nat
    /\ BandFallbacks \subseteq Nat
ASSUME CasesAssumption == \A case \in Cases :
    IsMesh(case.mesh) /\ case.cost \in [case.mesh.faces -> [Classes -> Nat]]

VARIABLES
    mesh,      \* combined_mesh
    cost,      \* face_logits_sum and face_point_count, as unary costs
    args,      \* --postprocess, --graph_cut and --pp_drop_small
    labels,    \* face_labels
    pc,        \* the stage that comes next
    rings,     \* the chosen band_rings
    sweep,     \* sweeps begun
    todo,      \* labels this sweep has still to expand
    band,      \* struct: the faces of the band it was built for, or {}
    changed    \* changed_total > 0

vars == <<mesh, cost, args, labels, pc, rings, sweep, todo, band, changed>>

input == <<mesh, cost, args>>
cut == <<rings, sweep, todo, band, changed>>

FirstBest(row) ==
    CHOOSE c \in Classes : \A d \in Classes \ {c} :
        row[c] < row[d] \/ (row[c] = row[d] /\ c < d)

InitialLabels(rows) ==
    [f \in DOMAIN rows |-> IF rows[f] = Uniform THEN Unlabelled ELSE FirstBest(rows[f])]

Used(l) == {l[f] : f \in DOMAIN l} \ {Unlabelled}

Init ==
    /\ \E case \in Cases : mesh = case.mesh /\ cost = case.cost
    /\ args \in [postprocess : BOOLEAN, graph_cut : BOOLEAN, drop_small : BOOLEAN]
    /\ args.drop_small => args.postprocess   \* read with --postprocess alone
    /\ labels = InitialLabels(cost)
    /\ pc = "fill"
    /\ rings = BandRings
    /\ sweep = 0
    /\ todo = {}
    /\ band = {}
    /\ changed = FALSE

HighPolyMesh == Cardinality(mesh.faces) >= HighPoly

(***************************************************************************)
(* The stages before the graph cut.                                        *)
(***************************************************************************)
FillFacesByVotesAlone(l) ==
    {FillByVoting(RealAdjacency(mesh), l, VoteIterations)}

FillFaces(l) ==
    NearestFills(mesh, FillByVoting(AugmentedAdjacency(mesh), l, VoteIterations))

\* Structured, for high-poly meshes, and without post-processing.
Fill ==
    /\ pc = "fill"
    /\ \/ /\ args.postprocess /\ ~ HighPolyMesh
          /\ labels' \in FillFaces(labels)
          /\ pc' = IF args.drop_small THEN "drop" ELSE "merge"
       \/ /\ args.postprocess /\ HighPolyMesh
          /\ labels' \in NearestFills(mesh, labels)
          /\ pc' = "preflight"
       \/ /\ ~ args.postprocess
          /\ labels' \in NearestFills(mesh, FillAlongEdges(mesh, labels, FillIterations))
          /\ pc' = "preflight"
    /\ UNCHANGED <<input, cut>>

ShellOf(S) == CHOOSE shell \in Shells(mesh) : S \subseteq shell

\* Regions whose share of their shell is below the threshold; in a shell
\* without area the share of all is 0.
SmallRegions ==
    {r \in Regions(mesh, labels) :
        LET shell == Area(mesh, ShellOf(r))
        IN  shell = 0 \/ Area(mesh, r) * 1000 < RelArea * shell}

DroppedRegionsAll == SmallRegions

\* A shell that would lose all its regions keeps the largest.
DroppedRegions ==
    LET In(shell) == {r \in Regions(mesh, labels) : r \subseteq shell}
        rescued == {LargestOf(mesh, In(shell)) :
                        shell \in {s \in Shells(mesh) : In(s) \subseteq SmallRegions}}
    IN  SmallRegions \ rescued

DropSmallRegions ==
    /\ pc = "drop"
    /\ LET dropped == UNION DroppedRegions
       IN  /\ labels' = Switch(labels, dropped, Unlabelled)
           /\ pc' = IF dropped = {} THEN "merge" ELSE "refill"
    /\ UNCHANGED <<input, cut>>

Refill ==
    /\ pc = "refill"
    /\ labels' \in FillFaces(labels)
    /\ pc' = "merge"
    /\ UNCHANGED <<input, cut>>

\* The regions from the largest on; equal areas come in any order.
AreaOrders ==
    {order \in SetToSeqs(Regions(mesh, labels)) :
        \A i, j \in DOMAIN order :
            i < j => Area(mesh, order[i]) >= Area(mesh, order[j])}

TailRegions(order) ==
    {order[i] : i \in {n \in DOMAIN order :
        Area(mesh, UNION {order[j] : j \in 1..n}) * 100
            > Cumulative * Area(mesh, mesh.faces)}}

\* The regions a small tail region can go to: the largest of its neighbours
\* that are not tail themselves.
Targets(region, tail) ==
    LET near == {r \in Regions(mesh, labels) \ (tail \cup {region}) :
                    \E p \in RealAdjacency(mesh) : p \cap r # {} /\ p \cap region # {}}
    IN  {r \in near : \A s \in near : Area(mesh, r) >= Area(mesh, s)}

MergeAreaTailRegions ==
    /\ pc = "merge"
    /\ \E order \in AreaOrders :
        LET tail == TailRegions(order)
            small == {r \in tail :
                        /\ Area(mesh, r) * 100 < MaxPartArea * Area(mesh, mesh.faces)
                        /\ Targets(r, tail) # {}}
        IN  \E target \in {t \in [small -> Regions(mesh, labels)] :
                              \A r \in small : t[r] \in Targets(r, tail)} :
                labels' = [f \in mesh.faces |->
                    IF f \in UNION small
                    THEN labels[Min(target[CHOOSE r \in small : f \in r])]
                    ELSE labels[f]]
    /\ pc' = "preflight"
    /\ UNCHANGED <<input, cut>>

(***************************************************************************)
(* The graph cut.  For a high-poly mesh the band is narrowed until it fits *)
(* the budgets, which are compared with the labels the cut starts from.    *)
(***************************************************************************)
FitsBudget(n) ==
    LET faces == BoundaryBand(mesh, labels, n)
    IN  /\ Cardinality(faces) * Cardinality(Used(labels)) <= MaxProduct
        /\ Cardinality(faces) <= MaxBandFaces
        /\ Cardinality(Components(faces, RealAdjacency(mesh))) <= MaxComponents

Candidates == {BandRings} \cup {n \in BandFallbacks : 1 <= n /\ n < BandRings}

HasBoundary == BoundaryBand(mesh, labels, 0) # {}

Preflight ==
    /\ pc = "preflight"
    /\ args.graph_cut
    /\ mesh.edges # <<>>
    /\ IF HighPolyMesh
       THEN /\ HasBoundary
            /\ \E n \in Candidates : FitsBudget(n)
            /\ rings' = Max({n \in Candidates : FitsBudget(n)})
       ELSE UNCHANGED rings
    /\ pc' = "sweep"
    /\ UNCHANGED <<input, labels, sweep, todo, band, changed>>

SkipGraphCut ==
    /\ pc = "preflight"
    /\ \/ ~ args.graph_cut
       \/ mesh.edges = <<>>
       \/ HighPolyMesh /\ (~ HasBoundary \/ \A n \in Candidates : ~ FitsBudget(n))
    /\ pc' = "done"
    /\ UNCHANGED <<input, labels, cut>>

Converged == sweep > 0 /\ ~ changed

StartSweep ==
    /\ pc = "sweep"
    /\ sweep < MaxSweeps /\ ~ Converged
    /\ sweep' = sweep + 1
    /\ todo' = Used(labels)
    /\ band' = {}
    /\ changed' = FALSE
    /\ pc' = "expand"
    /\ UNCHANGED <<input, labels, rings>>

Stop ==
    /\ pc = "sweep"
    /\ sweep = MaxSweeps \/ Converged
    /\ pc' = "done"
    /\ UNCHANGED <<input, labels, cut>>

FreshBand == BoundaryBand(mesh, labels, rings)

Struct == IF band = {} THEN FreshBand ELSE band

KeptStructStale(new) == Struct

\* The structure serves the next label as long as no face has changed.
KeptStruct(new) == IF new = labels THEN Struct ELSE {}

ChangedByLast(new) == new # labels

ChangedTotal(new) == changed \/ new # labels

Alpha == Min(todo)

Expand ==
    /\ pc = "expand"
    /\ todo # {} /\ Struct # {}
    /\ \E new \in Expansions(mesh, cost, labels, Struct, Alpha) :
        /\ labels' = new
        /\ band' = KeptStruct(new)
        /\ changed' = ChangedTotal(new)
    /\ todo' = todo \ {Alpha}
    /\ UNCHANGED <<input, pc, rings, sweep>>

EndSweep ==
    /\ pc = "expand"
    /\ todo = {} \/ Struct = {}
    /\ pc' = "sweep"
    /\ UNCHANGED <<input, labels, cut>>

Done == pc = "done" /\ UNCHANGED vars

Next ==
    \/ Fill \/ DropSmallRegions \/ Refill \/ MergeAreaTailRegions
    \/ Preflight \/ SkipGraphCut
    \/ StartSweep \/ Expand \/ EndSweep \/ Stop
    \/ Done

Spec == Init /\ [][Next]_vars

-----------------------------------------------------------------------------
\* Only labels of sampled faces are ever used, and behind every stage that
\* fills, no face is without one unless no face was sampled at all: not
\* after 16 rounds that did not reach it, nor in a shell of its own.
TypeOK ==
    /\ DOMAIN labels = mesh.faces
    /\ Used(labels) \subseteq Used(InitialLabels(cost))
    /\ pc \notin {"fill", "refill"} /\ Used(InitialLabels(cost)) # {} =>
            \A f \in mesh.faces : labels[f] # Unlabelled
    /\ rings \in Candidates
    /\ sweep \in 0..MaxSweeps
    /\ todo \subseteq Classes
    /\ band \subseteq mesh.faces

KeepsALabel(shell) ==
    LET had == {f \in shell : labels[f] # Unlabelled}
    IN  had # {} => \E f \in had : labels'[f] = labels[f]

\* Filling, dropping, refilling and merging: none of them takes a shell all it
\* had. Through each step some face of each labelled shell keeps its label,
\* however small or flat the shell (buttons, eyes); in the next step it may be
\* another face.
ShellKeepsALabel ==
    [][\A shell \in Shells(mesh) :
            pc \in {"fill", "drop", "refill", "merge"} => KeepsALabel(shell)]_vars

\* What the cut is to minimise: the cost of each face's label and of each
\* edge between two labels, over the whole mesh.
Energy(l) ==
    SumFunction([f \in mesh.faces |-> cost[f][l[f]]])
    + Smoothness(mesh, {i \in EdgeIds(mesh) :
                            l[mesh.edges[i][1]] # l[mesh.edges[i][2]]})

BestInBand(new) ==
    LET best == Energy(new)
    IN  \A S \in SUBSET FreshBand : best <= Energy(Switch(labels, S, Alpha))

\* An expansion is the best of all that can be made inside the band around
\* the borders as they are now: solving the components on their own, with
\* fixed neighbours and auxiliary nodes, loses nothing against the energy of
\* the whole mesh, and never raises it.
ExpansionOptimal ==
    [][pc = "expand" /\ todo' # todo => BestInBand(labels')]_vars

\* When the sweeps stop before the limit, no label could still gain a face
\* of the band with profit.
ConvergedIsMinimum ==
    pc = "done" /\ sweep > 0 /\ sweep < MaxSweeps =>
        \A c \in Used(labels) : \A S \in SUBSET FreshBand :
            Energy(labels) <= Energy(Switch(labels, S, c))
=============================================================================
