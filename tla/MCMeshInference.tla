-------------------------- MODULE MCMeshInference --------------------------
\* Two meshes of one stem and one of another, two prompts or clicks, a pool of
\* two processes, up to three launches and two faults.
EXTENDS MeshInference, TLC

CONSTANTS glbA, objA, glbB, nameA, nameB

MCMeshFiles == <<glbA, objA, glbB>>
MCStemOf == (glbA :> nameA) @@ (objA :> nameA) @@ (glbB :> nameB)

Symmetry == Permutations(Workers)
=============================================================================
