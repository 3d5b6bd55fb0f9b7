---------------------------- MODULE MCFaceLabels ----------------------------
(***************************************************************************)
(* Small meshes for FaceLabels, three labels, and every way to give the    *)
(* faces of a mesh a row of costs out of a few.                            *)
(***************************************************************************)
EXTENDS FaceLabels

MCClasses == 0..2

Row(a, b, c) == (0 :> a) @@ (1 :> b) @@ (2 :> c)

MCUniform == Row(2, 2, 2)

\* A strip of six faces, for the budgets and for bands that leave faces out,
\* and one of five equal faces that is below the high-poly threshold.
Strip ==
    [faces |-> 1..6,
     edges |-> [i \in 1..5 |-> <<i, i + 1>>],
     smooth |-> <<2, 2, 3, 1, 1>>,
     area |-> [f \in 1..6 |-> 1],
     at |-> [f \in 1..6 |-> f]]

Chain ==
    [faces |-> 1..5,
     edges |-> [i \in 1..4 |-> <<i, i + 1>>],
     smooth |-> <<2, 3, 3, 3>>,
     area |-> [f \in 1..5 |-> 1],
     at |-> [f \in 1..5 |-> f]]

\* Two large and three small faces, three of them around a corner: regions
\* that are dropped (below 0.1%) and regions of the tail (the last 5%, and
\* below 1%).
Plate ==
    [faces |-> 1..5,
     edges |-> <<<<1, 2>>, <<2, 3>>, <<1, 4>>, <<2, 4>>, <<4, 5>>>>,
     smooth |-> <<2, 1, 1, 1, 2>>,
     area |-> <<900, 800, 9, 1, 9>>,
     at |-> <<0, 40, 50, 12, 14>>]

\* Three shells, one of them small and one without area.
Buttons ==
    [faces |-> 1..5,
     edges |-> <<<<1, 2>>, <<4, 5>>>>,
     smooth |-> <<2, 1>>,
     area |-> <<500, 3, 2, 0, 0>>,
     at |-> <<0, 6, 10, 40, 41>>]

\* Faces that share no edge, in two pairs that are far from each other: the
\* virtual edges do not join them.
Loose ==
    [faces |-> 1..4, edges |-> <<>>, smooth |-> <<>>, area |-> <<1, 2, 1, 1>>,
     at |-> <<0, 1, 10, 12>>]

Inputs(m, rows) == {[mesh |-> m, cost |-> c] : c \in [m.faces -> rows]}

\* Most faces of a high-poly mesh have no point.
Sparse(inputs) ==
    {i \in inputs : Cardinality({f \in i.mesh.faces : i.cost[f] = MCUniform}) >= 3}

MCCases ==
    Sparse(Inputs(Strip, {MCUniform, Row(1, 4, 2), Row(4, 1, 2), Row(4, 2, 1)}))
    \cup Inputs(Chain, {Row(1, 2, 4), Row(2, 1, 4), Row(4, 2, 1)})
    \cup Inputs(Plate, {MCUniform, Row(0, 5, 5), Row(3, 1, 3)})
    \cup Inputs(Buttons, {MCUniform, Row(0, 5, 5), Row(5, 5, 0)})
    \cup Inputs(Loose, {MCUniform, Row(0, 5, 5), Row(5, 5, 0)})
=============================================================================
